---- MODULE Spec2Model ----
(***************************************************************************)
(* TrackLog: the trip event ledger (db/repositories), the pending          *)
(* expressway-exit prompt/decision records kept in the meta table, the     *)
(* native automatic expressway detector (services/routeTracking) and the   *)
(* reconciliation passes (RouteTrackingSupervisor, HomeScreen).            *)
(***************************************************************************)
EXTENDS Integers, Sequences, FiniteSets, TLC

\* ---------------------------------------------------------------- bounds
MaxEvents == 4      \* event ids (uuid) available to the ledger
MaxTime == 2        \* wall clock values 1..MaxTime used for event timestamps
MaxOdo == 2         \* odometer readings 1..MaxOdo
MaxRows == 3        \* rows the ledger holds while its events are being edited
StartTime == 100    \* the time, in seconds, at which the drive under study begins
MaxNow == 232       \* fixes arrive up to this time
MaxCallbacks == 2   \* watcher callbacks that can be in progress at once
MaxOverlapNow == 136 \* overlapping fixes arrive up to this time
MaxRestarts == 1    \* tracking restarts during the drive

VARIABLES
  events,          \* db.events: a set of event records
  nextId,          \* uuid(): ids are handed out once, in this order
  uuidAsc,         \* whether later uuids sort after earlier ones as primary keys
  clock,           \* wall clock read by nowIso()
  metaActiveTripId,\* db.meta['activeTripId'], 0 when absent
  pendingPrompt,   \* db.meta['pendingExpresswayEndPrompt']: tripId, 0 when absent
  pendingDecision, \* db.meta['pendingExpresswayEndDecision']: record, tripId 0 when absent
  last,            \* the last repository call and whether it returned or threw
  now,             \* time in seconds: fix times and Date.now()
  trackTrip,       \* routeTracking: activeTripId, 0 when tracking is stopped
  rt,              \* routeTracking: expresswayRuntime
  openCache,       \* routeTracking: expresswayOpenCache
  cbs,             \* the watcher callbacks in progress, one record per slot
  notified,        \* the trip whose native exit notification is displayed, 0 when none
  sup,             \* RouteTrackingSupervisor: the sync pass in progress
  home,            \* HomeScreen: the applyPendingExpresswayEndDecision passes in progress
  hist,            \* history: what the detector and the passes have done so far
  tracker,         \* routeTracking: the watcher registration and the calls that switch it
  routePoints      \* db.routePoints: a set of route point rows

ledgerVars == <<events, nextId, uuidAsc, clock, metaActiveTripId, pendingPrompt, pendingDecision, last>>
detVars == <<now, trackTrip, rt, openCache, cbs, notified, sup, home, hist, tracker, routePoints>>

EventIds == 1..MaxEvents
Times == 1..MaxTime
Odos == 1..MaxOdo

NoDecision == [tripId |-> 0, action |-> "none", decidedAt |-> 0]
LEGACY == -1

EVENT_TYPES == {"trip_start", "trip_end", "rest_start", "rest_end", "break_start", "break_end",
                "load_start", "load_end", "unload_start", "unload_end", "refuel", "boarding", "expressway",
                "expressway_start", "expressway_end", "point_mark"}

TOGGLE_GROUPS == {
  [start |-> "rest_start", end |-> "rest_end", key |-> "restSessionId"],
  [start |-> "break_start", end |-> "break_end", key |-> "breakSessionId"],
  [start |-> "load_start", end |-> "load_end", key |-> "loadSessionId"],
  [start |-> "unload_start", end |-> "unload_end", key |-> "unloadSessionId"],
  [start |-> "expressway_start", end |-> "expressway_end", key |-> "expresswaySessionId"]}

\* An event row. extras are flattened: odoKm 0 = absent, (skey, sid) = the one
\* session-id key the extras carry ("" / 0 = none), dayClose "absent"/"false"/"true",
\* dayIndex 0 = absent, hasTotals = totalKm/lastLegKm present (trip_end),
\* icResolveStatus "absent"/"pending"/"resolved".
Ev(id, tripId, type, ts, odoKm, skey, sid, dayClose, dayIndex, hasTotals, totalKm, lastLegKm) ==
  [id |-> id, tripId |-> tripId, type |-> type, ts |-> ts, odoKm |-> odoKm,
   skey |-> skey, sid |-> sid, dayClose |-> dayClose, dayIndex |-> dayIndex,
   hasTotals |-> hasTotals, totalKm |-> totalKm, lastLegKm |-> lastLegKm,
   icResolveStatus |-> "absent"]

baseEvent(id, tripId, type, ts, skey, sid) ==
  Ev(id, tripId, type, ts, 0, skey, sid, "absent", 0, FALSE, 0, 0)

\* an expressway_start / expressway_end row as startExpressway and endExpressway build it
expresswayEvent(id, tripId, type, ts, skey, sid) ==
  [baseEvent(id, tripId, type, ts, skey, sid) EXCEPT !.icResolveStatus = "pending"]

\* extras[key] of an event: the session id stored under that key, 0 when none
Extra(e, key) == IF e.skey = key THEN e.sid ELSE 0

\* Primary-key order of two rows: uuids are random strings, so rows created later
\* sort either after or before earlier ones.
PkLess(i, j) == IF uuidAsc THEN i < j ELSE i > j

\* Array order of toArray() followed by a stable sort on ts: ts, then primary key.
Before(a, b) == a.ts < b.ts \/ (a.ts = b.ts /\ PkLess(a.id, b.id))

RECURSIVE SortByTs(_)
SortByTs(S) ==
  IF S = {} THEN <<>>
  ELSE LET m == CHOOSE e \in S : \A f \in S \ {e} : Before(e, f)
       IN <<m>> \o SortByTs(S \ {m})

TripEvents(evs, tripId) == {e \in evs : e.tripId = tripId}
getEventsByTripId(tripId) == SortByTs(TripEvents(events, tripId))

OfType(evs, type) == {e \in evs : e.type = type}
ExistingTrips == {e.tripId : e \in events}
FreeIds == {i \in EventIds : i = nextId}

\* First element of a set in (ts, id) order, and last one
FirstOf(S) == CHOOSE e \in S : \A f \in S \ {e} : Before(e, f)
LastOf(S) == CHOOSE e \in S : \A f \in S \ {e} : Before(f, e)

\* totals whose last leg is always the whole distance
computeTotalsWholeLeg(odoStart, odoEnd, hasRest, lastRestStartOdo) ==
  [totalKm |-> odoEnd - odoStart, lastLegKm |-> odoEnd - odoStart, valid |-> odoEnd - odoStart >= 0]

computeTotals(odoStart, odoEnd, hasRest, lastRestStartOdo) ==
  LET totalKm == odoEnd - odoStart
      lastLegKm == IF hasRest THEN odoEnd - lastRestStartOdo ELSE totalKm
  IN [totalKm |-> totalKm, lastLegKm |-> lastLegKm, valid |-> (totalKm >= 0 /\ lastLegKm >= 0)]

\* clearPendingExpresswayEndPrompt(tripId) / ...Decision(tripId)
clearPendingExpresswayEndPrompt(p, tripId) == IF p = tripId THEN 0 ELSE p
clearPendingExpresswayEndDecision(d, tripId) == IF d.tripId = tripId THEN NoDecision ELSE d

\* rebalanceDayCloseIndices: renumber the trip's day-closing rest_end events 1..N by ts
RECURSIVE IndexIn(_, _)
IndexIn(seq, e) == IF Head(seq) = e THEN 1 ELSE 1 + IndexIn(Tail(seq), e)

\* a recompute pass that leaves every dayIndex as it finds it
rebalanceKeepingIndices(evs, tripId) == evs

rebalanceDayCloseIndices(evs, tripId) ==
  LET dayCloses == {e \in TripEvents(evs, tripId) : e.type = "rest_end" /\ e.dayClose = "true"}
      sorted == SortByTs(dayCloses)
  IN {IF e \in dayCloses THEN [e EXCEPT !.dayIndex = IndexIn(sorted, e)] ELSE e : e \in evs}

\* recomputeTripEndTotals: totals of the trip's last trip_end from the current events
recomputeTripEndTotals(evs, tripId) ==
  LET tev == TripEvents(evs, tripId)
      starts == OfType(tev, "trip_start")
      ends == OfType(tev, "trip_end")
      restStarts == OfType(tev, "rest_start")
  IN IF starts = {} \/ ends = {} THEN evs
     ELSE LET start == FirstOf(starts)
              end == LastOf(ends)
              lastRestStartOdo == IF restStarts # {} THEN LastOf(restStarts).odoKm ELSE 0
              t == computeTotals(start.odoKm, end.odoKm, lastRestStartOdo # 0, lastRestStartOdo)
          IN (evs \ {end}) \cup {[end EXCEPT !.hasTotals = TRUE, !.totalKm = t.totalKm,
                                             !.lastLegKm = t.lastLegKm]}

\* findLatestOdoCheckpoint: events sorted by ts descending (stable), first checkpoint
findLatestOdoCheckpoint(tev) ==
  LET cps == {e \in tev : e.type \in {"rest_start", "trip_start", "trip_end"}}
  IN IF cps = {} THEN 0
     ELSE (CHOOSE e \in cps : \A f \in cps \ {e} : e.ts > f.ts \/ (e.ts = f.ts /\ PkLess(e.id, f.id))).odoKm

getNextDayIndexFromTripEvents(tev) ==
  LET closes == {e \in tev : e.type = "rest_end" /\ e.dayClose = "true"}
      indices == {e.dayIndex : e \in {c \in closes : c.dayIndex # 0}}
  IN IF indices # {} THEN (CHOOSE n \in indices : \A m \in indices : n >= m) + 1
     ELSE Cardinality(closes) + 1

\* findOpenToggleSessionId: newest start whose id no end carries; legacy fallback
findOpenToggleSessionId(tev, startType, endType, key) ==
  LET starts == OfType(tev, startType)
      ends == OfType(tev, endType)
      unmatched == {s \in starts : Extra(s, key) # 0 /\ ~\E en \in ends : Extra(en, key) = Extra(s, key)}
  IN IF unmatched # {} THEN Extra(LastOf(unmatched), key)
     ELSE IF starts # {} /\ ~\E en \in ends : en.ts > LastOf(starts).ts THEN LEGACY
     ELSE 0

Call(op, ok) == [op |-> op, ok |-> ok]
Rejected(op) == /\ last' = Call(op, FALSE)
                /\ UNCHANGED <<events, nextId, uuidAsc, metaActiveTripId, pendingPrompt, pendingDecision>>

\* ------------------------------------------------------------ ledger actions
Tick == /\ clock < MaxTime
        /\ clock' = clock + 1
        /\ UNCHANGED <<events, nextId, uuidAsc, metaActiveTripId, pendingPrompt, pendingDecision, last, detVars>>

startTrip(odoKm) ==
  \E id \in FreeIds :
    /\ events' = events \cup {Ev(id, id, "trip_start", clock, odoKm, "", 0, "absent", 0, FALSE, 0, 0)}
    /\ nextId' = nextId + 1
    /\ metaActiveTripId' = id
    /\ pendingPrompt' = 0
    /\ pendingDecision' = NoDecision
    /\ last' = Call("startTrip", TRUE)
    /\ UNCHANGED uuidAsc

\* an endTrip that compares the end odometer with the trip start only
endTripStartCheckOnly(tripId, odoEndKm) ==
  LET tev == TripEvents(events, tripId)
      starts == OfType(tev, "trip_start")
      restStarts == OfType(tev, "rest_start")
      lastRestStartOdo == IF restStarts # {} THEN LastOf(restStarts).odoKm ELSE 0
  IN IF starts = {} \/ odoEndKm < FirstOf(starts).odoKm THEN Rejected("endTrip")
     ELSE \E id \in FreeIds :
       LET t == computeTotals(FirstOf(starts).odoKm, odoEndKm, lastRestStartOdo # 0, lastRestStartOdo) IN
       /\ events' = events \cup {Ev(id, tripId, "trip_end", clock, odoEndKm, "", 0, "absent", 0,
                                    TRUE, t.totalKm, t.lastLegKm)}
       /\ nextId' = nextId + 1
       /\ metaActiveTripId' = 0
       /\ pendingPrompt' = clearPendingExpresswayEndPrompt(pendingPrompt, tripId)
       /\ pendingDecision' = clearPendingExpresswayEndDecision(pendingDecision, tripId)
       /\ last' = Call("endTrip", TRUE)
       /\ UNCHANGED uuidAsc

endTrip(tripId, odoEndKm) ==
  LET tev == TripEvents(events, tripId)
      starts == OfType(tev, "trip_start")
      restStarts == OfType(tev, "rest_start")
      lastRestStartOdo == IF restStarts # {} THEN LastOf(restStarts).odoKm ELSE 0
      hasRest == lastRestStartOdo # 0  \* lastRestStartOdo != null
  IN IF starts = {} THEN Rejected("endTrip")
     ELSE LET start == FirstOf(starts) IN
       IF odoEndKm < start.odoKm THEN Rejected("endTrip")
       ELSE IF hasRest /\ odoEndKm < lastRestStartOdo THEN Rejected("endTrip")
       ELSE \E id \in FreeIds :
         LET t == computeTotals(start.odoKm, odoEndKm, hasRest, lastRestStartOdo) IN
         /\ events' = events \cup {Ev(id, tripId, "trip_end", clock, odoEndKm, "", 0, "absent", 0,
                                      TRUE, t.totalKm, t.lastLegKm)}
         /\ nextId' = nextId + 1
         /\ metaActiveTripId' = 0
         /\ pendingPrompt' = clearPendingExpresswayEndPrompt(pendingPrompt, tripId)
         /\ pendingDecision' = clearPendingExpresswayEndDecision(pendingDecision, tripId)
         /\ last' = Call("endTrip", TRUE)
         /\ UNCHANGED uuidAsc

deleteTrip(tripId) ==
  /\ events' = events \ TripEvents(events, tripId)
  /\ metaActiveTripId' = IF metaActiveTripId = tripId THEN 0 ELSE metaActiveTripId
  /\ last' = Call("deleteTrip", TRUE)
  /\ UNCHANGED <<nextId, uuidAsc, pendingPrompt, pendingDecision>>

\* a deleteEvent that deletes the row before it looks at its type
deleteEventThenCheck(ev) ==
  /\ events' = rebalanceDayCloseIndices(events \ {ev}, ev.tripId)
  /\ last' = Call("deleteEvent", ev.type # "trip_start")
  /\ UNCHANGED <<nextId, uuidAsc, metaActiveTripId, pendingPrompt, pendingDecision>>

deleteEvent(ev) ==
  IF ev.type = "trip_start" THEN Rejected("deleteEvent")
  ELSE /\ events' = rebalanceDayCloseIndices(events \ {ev}, ev.tripId)
       /\ last' = Call("deleteEvent", TRUE)
       /\ UNCHANGED <<nextId, uuidAsc, metaActiveTripId, pendingPrompt, pendingDecision>>

startRest(tripId, odoKm) ==
  LET tev == TripEvents(events, tripId)
      lastOdo == findLatestOdoCheckpoint(tev)
  IN IF lastOdo # 0 /\ odoKm < lastOdo THEN Rejected("startRest")
     ELSE \E id \in FreeIds :
       /\ events' = events \cup {Ev(id, tripId, "rest_start", clock, odoKm, "restSessionId", id,
                                    "absent", 0, FALSE, 0, 0)}
       /\ nextId' = nextId + 1
       /\ last' = Call("startRest", TRUE)
       /\ UNCHANGED <<uuidAsc, metaActiveTripId, pendingPrompt, pendingDecision>>

endRest(tripId, restSessionId, dayClose) ==
  LET tev == TripEvents(events, tripId)
      hasStart == \E e \in tev : e.type = "rest_start" /\ Extra(e, "restSessionId") = restSessionId
  IN IF ~hasStart THEN Rejected("endRest")
     ELSE \E id \in FreeIds :
       /\ events' = events \cup {Ev(id, tripId, "rest_end", clock, 0, "restSessionId", restSessionId,
                                    IF dayClose THEN "true" ELSE "false",
                                    IF dayClose THEN getNextDayIndexFromTripEvents(tev) ELSE 0,
                                    FALSE, 0, 0)}
       /\ nextId' = nextId + 1
       /\ last' = Call("endRest", TRUE)
       /\ UNCHANGED <<uuidAsc, metaActiveTripId, pendingPrompt, pendingDecision>>

\* startLoad / startUnload / startBreak: one body, per toggle group
startToggle(g, tripId) ==
  LET open == findOpenToggleSessionId(TripEvents(events, tripId), g.start, g.end, g.key)
  IN IF open # 0 THEN Rejected(g.start)
     ELSE \E id \in FreeIds :
       /\ events' = events \cup {baseEvent(id, tripId, g.start, clock, g.key, id)}
       /\ nextId' = nextId + 1
       /\ last' = Call(g.start, TRUE)
       /\ UNCHANGED <<uuidAsc, metaActiveTripId, pendingPrompt, pendingDecision>>

\* endLoad / endUnload / endBreak
endToggle(g, tripId) ==
  LET open == findOpenToggleSessionId(TripEvents(events, tripId), g.start, g.end, g.key)
  IN IF open = 0 THEN Rejected(g.end)
     ELSE \E id \in FreeIds :
       /\ events' = events \cup {IF open = LEGACY THEN baseEvent(id, tripId, g.end, clock, "", 0)
                                 ELSE baseEvent(id, tripId, g.end, clock, g.key, open)}
       /\ nextId' = nextId + 1
       /\ last' = Call(g.end, TRUE)
       /\ UNCHANGED <<uuidAsc, metaActiveTripId, pendingPrompt, pendingDecision>>

ExpresswayGroup == [start |-> "expressway_start", end |-> "expressway_end", key |-> "expresswaySessionId"]

startExpressway(tripId) ==
  LET open == findOpenToggleSessionId(TripEvents(events, tripId), "expressway_start",
                                      "expressway_end", "expresswaySessionId")
  IN IF open # 0 THEN Rejected("expressway_start")
     ELSE \E id \in FreeIds :
       /\ events' = events \cup {expresswayEvent(id, tripId, "expressway_start", clock,
                                                 "expresswaySessionId", id)}
       /\ nextId' = nextId + 1
       /\ pendingPrompt' = clearPendingExpresswayEndPrompt(pendingPrompt, tripId)
       /\ pendingDecision' = clearPendingExpresswayEndDecision(pendingDecision, tripId)
       /\ last' = Call("expressway_start", TRUE)
       /\ UNCHANGED <<uuidAsc, metaActiveTripId>>

\* an endExpressway that writes the end event without the open session's id
endExpresswayWithoutId(tripId) ==
  LET open == findOpenToggleSessionId(TripEvents(events, tripId), "expressway_start",
                                      "expressway_end", "expresswaySessionId")
  IN IF open = 0 THEN Rejected("expressway_end")
     ELSE \E id \in FreeIds :
       /\ events' = events \cup {expresswayEvent(id, tripId, "expressway_end", clock, "", 0)}
       /\ nextId' = nextId + 1
       /\ pendingPrompt' = clearPendingExpresswayEndPrompt(pendingPrompt, tripId)
       /\ pendingDecision' = clearPendingExpresswayEndDecision(pendingDecision, tripId)
       /\ last' = Call("expressway_end", TRUE)
       /\ UNCHANGED <<uuidAsc, metaActiveTripId>>

endExpressway(tripId) ==
  LET open == findOpenToggleSessionId(TripEvents(events, tripId), "expressway_start",
                                      "expressway_end", "expresswaySessionId")
  IN IF open = 0 THEN Rejected("expressway_end")
     ELSE \E id \in FreeIds :
       /\ events' = events \cup {IF open = LEGACY THEN expresswayEvent(id, tripId, "expressway_end", clock, "", 0)
                                 ELSE expresswayEvent(id, tripId, "expressway_end", clock, "expresswaySessionId", open)}
       /\ nextId' = nextId + 1
       /\ pendingPrompt' = clearPendingExpresswayEndPrompt(pendingPrompt, tripId)
       /\ pendingDecision' = clearPendingExpresswayEndDecision(pendingDecision, tripId)
       /\ last' = Call("expressway_end", TRUE)
       /\ UNCHANGED <<uuidAsc, metaActiveTripId>>

updateEventOdo(ev, odoKm) ==
  IF ev.type \notin {"trip_start", "rest_start", "trip_end"} THEN Rejected("updateEventOdo")
  ELSE /\ events' = recomputeTripEndTotals((events \ {ev}) \cup {[ev EXCEPT !.odoKm = odoKm]}, ev.tripId)
       /\ last' = Call("updateEventOdo", TRUE)
       /\ UNCHANGED <<nextId, uuidAsc, metaActiveTripId, pendingPrompt, pendingDecision>>

updateEventTimestamp(ev, ts) ==
  /\ events' = rebalanceDayCloseIndices((events \ {ev}) \cup {[ev EXCEPT !.ts = ts]}, ev.tripId)
  /\ last' = Call("updateEventTimestamp", TRUE)
  /\ UNCHANGED <<nextId, uuidAsc, metaActiveTripId, pendingPrompt, pendingDecision>>

NoGroup == [start |-> "", end |-> "", key |-> ""]

getToggleGroupByType(type) ==
  IF \E g \in TOGGLE_GROUPS : g.start = type \/ g.end = type
  THEN CHOOSE g \in TOGGLE_GROUPS : g.start = type \/ g.end = type
  ELSE NoGroup

SESSION_KEY_BY_TYPE(type) == getToggleGroupByType(type).key

\* pickExistingSessionId: the first session id found under any key, 0 when none
pickExistingSessionId(e) == e.sid

\* findPairedToggleEvent: {} when undefined, else a one-element set
findPairedToggleEvent(tev, ev, group, type) ==
  LET pairType == IF type = group.start THEN group.end ELSE group.start
      candidates == OfType(tev, pairType)
      sid == Extra(ev, group.key)
      bySid == {e \in candidates : Extra(e, group.key) = sid}
      later == {e \in candidates : e.ts >= ev.ts}
      earlier == {e \in candidates : e.ts <= ev.ts}
  IN IF sid # 0 /\ bySid # {} THEN {FirstOf(bySid)}
     ELSE IF type = group.start THEN (IF later = {} THEN {} ELSE {FirstOf(later)})
     ELSE (IF earlier = {} THEN {} ELSE {LastOf(earlier)})

\* applyTypeExtras: the event re-typed, its session id moved under the type's key
applyTypeExtras(type, e, sessionId, freshSid) ==
  LET target == SESSION_KEY_BY_TYPE(type)
      sid == IF sessionId # 0 THEN sessionId
             ELSE IF Extra(e, target) # 0 THEN Extra(e, target)
             ELSE IF pickExistingSessionId(e) # 0 THEN pickExistingSessionId(e)
             ELSE freshSid
  IN [e EXCEPT !.type = type,
               !.skey = target,
               !.sid = IF target # "" THEN sid ELSE 0,
               !.dayClose = IF type = "rest_end" /\ e.dayClose = "absent" THEN "false" ELSE e.dayClose,
               !.icResolveStatus =
                  IF type \in {"expressway", "expressway_start", "expressway_end"} /\ @ = "absent"
                  THEN "pending" ELSE @]

\* a uuid() drawn inside updateEventType for an event that carries no session id yet
FreshSid(ev) == 100 + ev.id

\* the event chosen as the pair of ev for a change to nextType: {} when none is looked for or found
pairedEventFor(ev, nextType) ==
  LET tev == TripEvents(events, ev.tripId)
      oldGroup == getToggleGroupByType(ev.type)
      newGroup == getToggleGroupByType(nextType)
      byOld == IF oldGroup # NoGroup THEN findPairedToggleEvent(tev, ev, oldGroup, ev.type) ELSE {}
  IN IF newGroup = NoGroup THEN {}
     ELSE IF byOld # {} THEN byOld
     ELSE findPairedToggleEvent(tev, ev, newGroup, nextType)

\* the session id both rows receive: own id under the new key, the pair's, any existing id, a fresh uuid
sessionIdFor(ev, nextType, paired) ==
  LET sessionKey == SESSION_KEY_BY_TYPE(nextType)
  IN IF sessionKey # "" /\ Extra(ev, sessionKey) # 0 THEN Extra(ev, sessionKey)
     ELSE IF sessionKey # "" /\ (\E q \in paired : Extra(q, sessionKey) # 0)
       THEN Extra(CHOOSE q \in paired : TRUE, sessionKey)
     ELSE IF pickExistingSessionId(ev) # 0 THEN pickExistingSessionId(ev)
     ELSE IF \E q \in paired : pickExistingSessionId(q) # 0
       THEN pickExistingSessionId(CHOOSE q \in paired : TRUE)
     ELSE IF sessionKey # "" THEN FreshSid(ev)
     ELSE 0

\* the rows after the updates: they are applied in order, so when the event is
\* its own pair the second update stands
retypedRows(ev, nextType, paired, sessionId) ==
  LET newGroup == getToggleGroupByType(nextType)
      pairType == IF nextType = newGroup.start THEN newGroup.end ELSE newGroup.start
      nextEv == applyTypeExtras(nextType, ev, sessionId, FreshSid(ev))
      pairRows == {applyTypeExtras(pairType, q, sessionId, FreshSid(q)) : q \in paired}
  IN (events \ ({ev} \cup paired)) \cup
       (IF \E q \in paired : q.id = ev.id THEN pairRows ELSE {nextEv} \cup pairRows)

updateEventType(ev, nextType) ==
  LET oldGroup == getToggleGroupByType(ev.type)
      newGroup == getToggleGroupByType(nextType)
      pairType == IF nextType = newGroup.start THEN newGroup.end ELSE newGroup.start
  IN IF ev.type = nextType
       THEN /\ last' = Call("updateEventType", TRUE)
            /\ UNCHANGED <<events, nextId, uuidAsc, metaActiveTripId, pendingPrompt, pendingDecision>>
     ELSE IF ev.type \in {"trip_start", "trip_end"} \/ nextType \in {"trip_start", "trip_end"}
       THEN Rejected("updateEventType")
     ELSE IF oldGroup # NoGroup /\ newGroup = NoGroup THEN Rejected("updateEventType")
     ELSE \E paired \in {pairedEventFor(ev, nextType)} :
       IF newGroup # NoGroup /\ paired = {} THEN Rejected("updateEventType")
       ELSE IF nextType = "rest_start" /\ ev.odoKm <= 0 THEN Rejected("updateEventType")
       ELSE \E updated \in {retypedRows(ev, nextType, paired, sessionIdFor(ev, nextType, paired))} :
         LET needsRebalance == \/ ev.type = "rest_end" \/ nextType = "rest_end"
                               \/ \E q \in paired : q.type = "rest_end" \/ pairType = "rest_end"
             needsTotals == \/ ev.type = "rest_start" \/ nextType = "rest_start"
                            \/ \E q \in paired : q.type = "rest_start" \/ pairType = "rest_start"
         IN \E rebalanced \in {IF needsRebalance THEN rebalanceDayCloseIndices(updated, ev.tripId)
                               ELSE updated} :
              /\ events' = IF needsTotals THEN recomputeTripEndTotals(rebalanced, ev.tripId)
                           ELSE rebalanced
              /\ last' = Call("updateEventType", TRUE)
              /\ UNCHANGED <<nextId, uuidAsc, metaActiveTripId, pendingPrompt, pendingDecision>>

\* ------------------------------------------- native automatic expressway detector
\* Times are whole seconds; a nullable time is 0 and a null speed is NoSpeed.
NoSpeed == -1
cooldownSec == 60
DefaultSpeedKmh == 78
DefaultDurationSec == 6
DefaultEndSpeedKmh == 34
DefaultEndDurationSec == 24
startAccelMilliKmhPerSec == 648      \* startAccelMs2 0.18 m/s^2 = 0.648 km/h per second
startAccelWindowSec == 75
endDecelMilliKmhPerSec == 1008       \* endDecelMs2 -0.28 m/s^2 = -1.008 km/h per second
endDecelWindowSec == 90
endPromptCooldownSec == 45
endResetMarginKmh == 8
endResetHoldSec == 20
openCacheTtlSec == 5
keepCheckThrottleSec == 3
stopLikeKmh == 20
accelMinDtSec == 1
accelMaxDtSec == 20

\* the route-tracking service's watcher: its callers, its modes, the state before any call
MaxWatchers == 3
Watchers == 1..MaxWatchers
Callers == {"supervisor", "home"}
Modes == {"precision", "battery"}
IdleCall == [pc |-> "idle", tripId |-> 0, mode |-> "precision", id |-> 0]
tracker0 ==
  [bgWatcherId |-> 0, activeTripId |-> 0, currentMode |-> "precision",
   lastPoint |-> FALSE, lastPointAt |-> 0, runtimeSet |-> FALSE,
   registered |-> {}, nextWatcher |-> 1,
   calls |-> [c \in Callers |-> IdleCall],
   fixes |-> [w \in Watchers |-> "idle"],
   fresh |-> FALSE]

Slots == 1..MaxCallbacks
\* fix traces: the seconds between accepted fixes and their fused speeds in km/h
EntryGaps == {DefaultDurationSec}
EntrySpeeds == {10, 80}
ExitGaps == {DefaultEndDurationSec, cooldownSec}
ExitSpeeds == {NoSpeed, 10, 50}

Max(a, b) == IF a >= b THEN a ELSE b

expresswayRuntime0 ==
  [speedAboveSince |-> 0, speedBelowSince |-> 0, speedRecoveredSince |-> 0,
   lastSpeed |-> NoSpeed, lastSpeedAt |-> 0, lastStrongAccelAt |-> 0, lastStrongDecelAt |-> 0,
   lastEndPromptAt |-> 0, lastKeepDecisionCheckAt |-> 0, endPromptOutstanding |-> FALSE,
   inFlight |-> FALSE, lastActionAt |-> 0, smoothedSpeedKmh |-> NoSpeed]

IdleCallback == [pc |-> "idle", at |-> 0, speed |-> NoSpeed, tripId |-> 0, sawOpen |-> 0,
                 seenStarts |-> 0, seenPrompts |-> 0, afterKeep |-> FALSE,
                 wasOpen |-> FALSE, sustained |-> FALSE, accelFresh |-> FALSE, cooled |-> FALSE,
                 quiet |-> FALSE]

\* deriveAccelerationMs2 compared with the start / end thresholds
strongAccel(prevSpeed, prevAt, speed, t) ==
  /\ speed # NoSpeed /\ prevSpeed # NoSpeed /\ prevAt # 0
  /\ t - prevAt >= accelMinDtSec /\ t - prevAt <= accelMaxDtSec
  /\ 1000 * (speed - prevSpeed) >= startAccelMilliKmhPerSec * (t - prevAt)

strongDecel(prevSpeed, prevAt, speed, t) ==
  /\ speed # NoSpeed /\ prevSpeed # NoSpeed /\ prevAt # 0
  /\ t - prevAt >= accelMinDtSec /\ t - prevAt <= accelMaxDtSec
  /\ 1000 * (speed - prevSpeed) <= 0 - endDecelMilliKmhPerSec * (t - prevAt)

\* routeTracking's hasOpenExpressway: an unanswered session id, or the legacy fallback
hasOpenExpressway(tev) ==
  findOpenToggleSessionId(tev, "expressway_start", "expressway_end", "expresswaySessionId") # 0

\* what a callback hands on: the stores it has written and where it continues
Outcome(r, cache, prompt, decision, shown, pc) ==
  [rt |-> r, cache |-> cache, prompt |-> prompt, decision |-> decision, shown |-> shown, pc |-> pc]

\* the exit side of maybeHandleNativeAutoExpressway up to the road-graph query
exitEvaluation(r, cache, prompt, decision, shown, trip, speed, t) ==
  LET r1 == [r EXCEPT !.speedAboveSince = 0]
      recovering == speed >= DefaultEndSpeedKmh + endResetMarginKmh
      since == IF r1.speedRecoveredSince = 0 THEN t ELSE r1.speedRecoveredSince
      clearIt == t - since >= endResetHoldSec /\ r1.endPromptOutstanding
      lowSpeedSustained == t - r1.speedBelowSince >= DefaultEndDurationSec
      strongDecelRecent == r1.lastStrongDecelAt # 0 /\ t - r1.lastStrongDecelAt <= endDecelWindowSec
      stopLikeSustained == lowSpeedSustained /\ speed <= stopLikeKmh
  IN IF recovering
     THEN Outcome([r1 EXCEPT !.speedRecoveredSince = since, !.speedBelowSince = 0,
                             !.endPromptOutstanding = IF clearIt THEN FALSE ELSE @],
                  cache,
                  IF clearIt THEN clearPendingExpresswayEndPrompt(prompt, trip) ELSE prompt,
                  IF clearIt THEN clearPendingExpresswayEndDecision(decision, trip) ELSE decision,
                  IF clearIt /\ shown = trip THEN 0 ELSE shown, "idle")
     ELSE IF speed >= DefaultEndSpeedKmh
     THEN Outcome([r1 EXCEPT !.speedRecoveredSince = 0, !.speedBelowSince = 0],
                  cache, prompt, decision, shown, "idle")
     ELSE IF r1.speedBelowSince = 0
     THEN Outcome([r1 EXCEPT !.speedRecoveredSince = 0, !.speedBelowSince = t],
                  cache, prompt, decision, shown, "idle")
     ELSE IF ~lowSpeedSustained \/ (~strongDecelRecent /\ ~stopLikeSustained)
     THEN Outcome([r1 EXCEPT !.speedRecoveredSince = 0], cache, prompt, decision, shown, "idle")
     ELSE IF t - r1.lastEndPromptAt < endPromptCooldownSec
     THEN Outcome([r1 EXCEPT !.speedRecoveredSince = 0], cache, prompt, decision, shown, "idle")
     ELSE Outcome([r1 EXCEPT !.speedRecoveredSince = 0], cache, prompt, decision, shown, "exitSignal")

\* the entry side of maybeHandleNativeAutoExpressway up to the road-graph queries
entryEvaluation(r, cache, prompt, decision, shown, speed, t) ==
  LET r1 == [r EXCEPT !.speedBelowSince = 0, !.speedRecoveredSince = 0, !.endPromptOutstanding = FALSE]
      strongAccelRecent == r1.lastStrongAccelAt # 0 /\ t - r1.lastStrongAccelAt <= startAccelWindowSec
  IN IF speed < DefaultSpeedKmh
     THEN Outcome([r1 EXCEPT !.speedAboveSince = 0,
                             !.lastStrongAccelAt = IF speed >= 0 /\ 10 * speed < 8 * DefaultSpeedKmh THEN 0 ELSE @],
                  cache, prompt, decision, shown, "idle")
     ELSE IF r1.speedAboveSince = 0
     THEN Outcome([r1 EXCEPT !.speedAboveSince = t], cache, prompt, decision, shown, "idle")
     ELSE IF ~strongAccelRecent THEN Outcome(r1, cache, prompt, decision, shown, "idle")
     ELSE IF t - r1.speedAboveSince < DefaultDurationSec
     THEN Outcome(r1, cache, prompt, decision, shown, "idle")
     ELSE Outcome(r1, cache, prompt, decision, shown, "entrySignal")

\* consumeKeepDecisionIfAny
consumeKeepDecisionIfAny(r, cache, prompt, decision, shown, trip, t) ==
  IF t - r.lastKeepDecisionCheckAt < keepCheckThrottleSec
  THEN Outcome(r, cache, prompt, decision, shown, "idle")
  ELSE IF decision.tripId # trip \/ decision.action # "keep"
  THEN Outcome([r EXCEPT !.lastKeepDecisionCheckAt = t], cache, prompt, decision, shown, "idle")
  ELSE Outcome([r EXCEPT !.lastKeepDecisionCheckAt = t,
                         !.lastActionAt = Max(@, decision.decidedAt),
                         !.lastEndPromptAt = Max(@, decision.decidedAt),
                         !.speedBelowSince = t, !.speedRecoveredSince = 0,
                         !.endPromptOutstanding = FALSE],
               cache, clearPendingExpresswayEndPrompt(prompt, trip),
               clearPendingExpresswayEndDecision(decision, trip),
               IF shown = trip THEN 0 ELSE shown, "idle")

\* maybeHandleNativeAutoExpressway from its first line to its first road-graph query
maybeHandleNativeAutoExpressway(trip, speed, t) ==
  LET r0 == [rt EXCEPT !.lastSpeed = speed, !.lastSpeedAt = t,
                       !.lastStrongAccelAt = IF strongAccel(rt.lastSpeed, rt.lastSpeedAt, speed, t) THEN t ELSE @,
                       !.lastStrongDecelAt = IF strongDecel(rt.lastSpeed, rt.lastSpeedAt, speed, t) THEN t ELSE @]
      cacheHit == openCache.tripId = trip /\ t - openCache.checkedAt < openCacheTtlSec
      isOpen == IF cacheHit THEN openCache.isOpen ELSE hasOpenExpressway(TripEvents(events, trip))
      cache1 == IF cacheHit THEN openCache ELSE [tripId |-> trip, checkedAt |-> t, isOpen |-> isOpen]
      c == IF isOpen
           THEN consumeKeepDecisionIfAny(r0, cache1, pendingPrompt, pendingDecision, notified, trip, t)
           ELSE Outcome(r0, cache1, pendingPrompt, pendingDecision, notified, "idle")
  IN IF speed = NoSpeed
     THEN Outcome([r0 EXCEPT !.speedAboveSince = 0, !.speedBelowSince = 0, !.speedRecoveredSince = 0],
                  openCache, pendingPrompt, pendingDecision, notified, "idle")
     ELSE IF c.rt.inFlight \/ t - c.rt.lastActionAt < cooldownSec THEN c
     ELSE IF isOpen THEN exitEvaluation(c.rt, c.cache, c.prompt, c.decision, c.shown, trip, speed, t)
     ELSE entryEvaluation(c.rt, c.cache, c.prompt, c.decision, c.shown, speed, t)


\* history kept beside the program state: the automatic writes and prompts so far
NoPass == [by |-> "none", read |-> "none", promptLeft |-> FALSE, decisionLeft |-> FALSE, wrote |-> FALSE]
hist0 ==
  [epoch |-> 0, autoStarts |-> <<>>, nPrompts |-> 0, quietPrompts |-> 0,
   keepPending |-> FALSE, recSince |-> 0, badKeepPrompt |-> FALSE,
   overlapStart |-> FALSE, overlapPrompt |-> FALSE, pass |-> NoPass,
   timerBroken |-> FALSE, accelStale |-> FALSE, lastAutoAt |-> 0,
   exitTimerBroken |-> FALSE, prompted |-> [wasOpen |-> TRUE, quiet |-> TRUE]]

\* history after a fix of the given speed at time t
histAfterFix(h, speed, t) ==
  LET recovering == speed # NoSpeed /\ speed >= DefaultEndSpeedKmh + endResetMarginKmh
      since == IF h.recSince = 0 THEN t ELSE h.recSince
  IN [h EXCEPT !.quietPrompts = IF speed = NoSpeed \/ speed >= DefaultEndSpeedKmh THEN 0 ELSE @,
               !.recSince = IF recovering THEN since ELSE 0,
               !.keepPending = IF recovering /\ t - since >= endResetHoldSec THEN FALSE ELSE @]

\* history after a fix that took the runtime from `before` to `after`: whether a fix
\* below the entry threshold has arrived since the running accumulation timer started,
\* whether a fix at or above the exit threshold has arrived since the running exit
\* timer started, and whether a fix below 0.8 times the entry threshold has arrived
\* since the strong acceleration that is still remembered
fixMarks(h, before, after, speed, t) ==
  [h EXCEPT
     !.timerBroken = IF after.speedAboveSince = 0 THEN FALSE
                     ELSE IF speed < DefaultSpeedKmh THEN TRUE
                     ELSE IF after.speedAboveSince = t THEN FALSE ELSE @,
     !.exitTimerBroken = IF after.speedBelowSince = 0 THEN FALSE
                         ELSE IF speed >= DefaultEndSpeedKmh THEN TRUE
                         ELSE IF after.speedBelowSince = t THEN FALSE ELSE @,
     !.accelStale = IF after.lastStrongAccelAt = 0 THEN FALSE
                    ELSE IF speed # NoSpeed /\ 10 * speed < 8 * DefaultSpeedKmh THEN TRUE
                    ELSE IF after.lastStrongAccelAt = t THEN FALSE ELSE @]

\* history entry for an automatic expressway_start: the fix it was written for and
\* what held at that fix
autoStartAt(cb, epoch) ==
  [at |-> cb.at, epoch |-> epoch, wasOpen |-> cb.wasOpen, sustained |-> cb.sustained,
   accelFresh |-> cb.accelFresh, cooled |-> cb.cooled]

\* history after the user has answered or the session has been opened or closed
histAfterBreak(h, keep) ==
  [h EXCEPT !.quietPrompts = 0, !.keepPending = keep, !.recSince = 0]

\* the callback as it is suspended at its first road-graph query, with what held at its fix
callbackAt(o, speed, t) ==
  IF o.pc = "idle" THEN IdleCallback
  ELSE [pc |-> o.pc, at |-> t, speed |-> speed,
        tripId |-> trackTrip, sawOpen |-> 0,
        seenStarts |-> Len(hist.autoStarts),
        seenPrompts |-> hist.nPrompts,
        afterKeep |-> histAfterFix(hist, speed, t).keepPending,
        wasOpen |-> hasOpenExpressway(TripEvents(events, trackTrip)),
        sustained |-> ~fixMarks(hist, rt, o.rt, speed, t).timerBroken,
        accelFresh |-> ~fixMarks(hist, rt, o.rt, speed, t).accelStale,
        quiet |-> ~fixMarks(hist, rt, o.rt, speed, t).exitTimerBroken,
        cooled |-> hist.lastAutoAt = 0 \/ t - hist.lastAutoAt >= cooldownSec]

\* the watcher callback: recordLocation for an accepted fix whose fused speed is `speed`,
\* run to the first road-graph query of maybeHandleNativeAutoExpressway
recordLocation(s, dt, speed) ==
  /\ trackTrip # 0
  /\ cbs[s].pc = "idle"
  /\ now + dt <= MaxNow
  /\ now' = now + dt
  /\ \E o \in {maybeHandleNativeAutoExpressway(trackTrip, speed, now + dt)} :
       /\ rt' = o.rt
       /\ openCache' = o.cache
       /\ pendingPrompt' = o.prompt
       /\ pendingDecision' = o.decision
       /\ notified' = o.shown
       /\ cbs' = [cbs EXCEPT ![s] = callbackAt(o, speed, now + dt)]
       /\ hist' = fixMarks(histAfterFix(hist, speed, now + dt), rt, o.rt, speed, now + dt)
  /\ UNCHANGED <<events, nextId, uuidAsc, clock, metaActiveTripId, last, trackTrip, sup, home, tracker, routePoints>>

\* the exit side after detectExpresswaySignal has answered: the prompt is stored and shown
exitSignal(s, allowEndBySignal) ==
  LET cb == cbs[s] IN
  /\ cb.pc = "exitSignal"
  /\ cbs' = [cbs EXCEPT ![s] = IdleCallback]
  /\ IF ~allowEndBySignal
     THEN /\ rt' = [rt EXCEPT !.speedBelowSince = cb.at]
          /\ UNCHANGED <<pendingPrompt, notified, openCache, hist>>
     ELSE /\ pendingPrompt' = cb.tripId
          /\ notified' = cb.tripId
          /\ rt' = [rt EXCEPT !.lastEndPromptAt = cb.at, !.lastActionAt = cb.at,
                              !.endPromptOutstanding = TRUE, !.speedBelowSince = 0,
                              !.inFlight = FALSE]
          /\ openCache' = [tripId |-> cb.tripId, checkedAt |-> cb.at, isOpen |-> TRUE]
          /\ hist' = [hist EXCEPT !.nPrompts = @ + 1, !.quietPrompts = @ + 1,
                                  !.lastAutoAt = cb.at,
                                  !.prompted = [wasOpen |-> cb.wasOpen, quiet |-> cb.quiet],
                                  !.badKeepPrompt = @ \/ (hist.keepPending /\ cb.afterKeep),
                                  !.overlapPrompt = @ \/ hist.nPrompts > cb.seenPrompts]
  /\ UNCHANGED <<events, nextId, uuidAsc, clock, metaActiveTripId, pendingDecision, last,
                 now, trackTrip, sup, home, tracker, routePoints>>

\* the entry side after the road-graph queries have answered, up to startExpressway's read
entrySignal(s, allowStartBySignal) ==
  LET cb == cbs[s] IN
  /\ cb.pc = "entrySignal"
  /\ IF ~allowStartBySignal
     THEN /\ rt' = [rt EXCEPT !.speedAboveSince = cb.at]
          /\ cbs' = [cbs EXCEPT ![s] = IdleCallback]
          /\ UNCHANGED <<pendingPrompt, pendingDecision, notified>>
     ELSE /\ rt' = [rt EXCEPT !.inFlight = TRUE, !.speedAboveSince = 0]
          /\ pendingPrompt' = clearPendingExpresswayEndPrompt(pendingPrompt, cb.tripId)
          /\ pendingDecision' = clearPendingExpresswayEndDecision(pendingDecision, cb.tripId)
          /\ notified' = IF notified = cb.tripId THEN 0 ELSE notified
          /\ cbs' = [cbs EXCEPT ![s] =
                       [cb EXCEPT !.pc = "entryWrite",
                                  !.sawOpen = findOpenToggleSessionId(TripEvents(events, cb.tripId),
                                                "expressway_start", "expressway_end",
                                                "expresswaySessionId")]]
  /\ UNCHANGED <<events, nextId, uuidAsc, clock, metaActiveTripId, last,
                 now, trackTrip, openCache, sup, home, hist, tracker, routePoints>>

\* startExpressway's write and the rest of the entry side
entryWrite(s) ==
  LET cb == cbs[s] IN
  /\ cb.pc = "entryWrite"
  /\ cbs' = [cbs EXCEPT ![s] = IdleCallback]
  /\ IF cb.sawOpen # 0
     THEN /\ last' = Call("expressway_start", FALSE)
          /\ rt' = [rt EXCEPT !.inFlight = FALSE]
          /\ openCache' = [tripId |-> cb.tripId, checkedAt |-> 0, isOpen |-> FALSE]
          /\ UNCHANGED <<events, nextId, clock, pendingPrompt, pendingDecision, hist>>
     ELSE \E id \in FreeIds :
          /\ events' = events \cup {expresswayEvent(id, cb.tripId, "expressway_start", clock,
                                                    "expresswaySessionId", id)}
          /\ nextId' = nextId + 1
          /\ clock' = clock + 1
          /\ pendingPrompt' = clearPendingExpresswayEndPrompt(pendingPrompt, cb.tripId)
          /\ pendingDecision' = clearPendingExpresswayEndDecision(pendingDecision, cb.tripId)
          /\ last' = Call("expressway_start", TRUE)
          /\ rt' = [rt EXCEPT !.lastActionAt = cb.at, !.inFlight = FALSE]
          /\ openCache' = [tripId |-> cb.tripId, checkedAt |-> cb.at, isOpen |-> TRUE]
          /\ hist' = [histAfterBreak(hist, FALSE) EXCEPT
                        !.autoStarts = Append(@, autoStartAt(cb, hist.epoch)),
                        !.lastAutoAt = cb.at,
                        !.overlapStart = @ \/ Len(hist.autoStarts) > cb.seenStarts]
  /\ UNCHANGED <<uuidAsc, metaActiveTripId, now, trackTrip, notified, sup, home, tracker, routePoints>>

\* stopRouteTracking followed by startRouteTracking for the same trip
restartRouteTracking ==
  /\ trackTrip # 0
  /\ hist.epoch < MaxRestarts
  /\ rt' = expresswayRuntime0
  /\ openCache' = [tripId |-> trackTrip, checkedAt |-> 0, isOpen |-> FALSE]
  /\ hist' = [histAfterBreak(hist, hist.keepPending) EXCEPT !.epoch = @ + 1]
  /\ UNCHANGED <<ledgerVars, now, trackTrip, cbs, notified, sup, home, tracker, routePoints>>

\* HomeScreen's "end expressway" button: endExpressway, then the prompt is withdrawn
userEndExpressway(tripId) ==
  /\ endExpressway(tripId)
  /\ clock' = clock + 1
  /\ notified' = IF last'.ok /\ notified = tripId THEN 0 ELSE notified
  /\ hist' = IF last'.ok THEN histAfterBreak(hist, FALSE) ELSE hist
  /\ UNCHANGED <<now, trackTrip, rt, openCache, cbs, sup, home, tracker, routePoints>>

\* the notification's "end" action; endExpressway throws when no session is open
\* and when the store rejects the transaction
notificationActionEnd(storageFails) ==
  /\ notified # 0
  /\ notified' = 0
  /\ IF storageFails \/
        findOpenToggleSessionId(TripEvents(events, notified), "expressway_start", "expressway_end",
                                "expresswaySessionId") = 0
     THEN /\ last' = Call("expressway_end", FALSE)
          /\ pendingPrompt' = notified
          /\ pendingDecision' = [tripId |-> notified, action |-> "end", decidedAt |-> now]
          /\ UNCHANGED <<events, nextId, uuidAsc, metaActiveTripId, clock>>
     ELSE /\ endExpressway(notified)
          /\ clock' = clock + 1
  /\ hist' = histAfterBreak(hist, FALSE)
  /\ UNCHANGED <<now, trackTrip, rt, openCache, cbs, sup, home, tracker, routePoints>>

\* the notification's "keep" action
notificationActionKeep ==
  /\ notified # 0
  /\ notified' = 0
  /\ pendingPrompt' = clearPendingExpresswayEndPrompt(pendingPrompt, notified)
  /\ pendingDecision' = [tripId |-> notified, action |-> "keep", decidedAt |-> now]
  /\ hist' = histAfterBreak(hist, TRUE)
  /\ UNCHANGED <<events, nextId, uuidAsc, clock, metaActiveTripId, last,
                 now, trackTrip, rt, openCache, cbs, sup, home, tracker, routePoints>>

\* ------------------------------------------------------- reconciliation passes
IdlePass == [pc |-> "idle", tripId |-> 0, open |-> FALSE, openRest |-> FALSE,
             action |-> "none", sawOpen |-> 0]

\* getActiveTripId: the meta pointer when it names a started, unended trip,
\* otherwise the first unended trip_start of the trip_start rows sorted by ts,
\* newest first (rows of equal ts stay in primary-key order)
liveTrip(t) ==
  /\ \E e \in events : e.tripId = t /\ e.type = "trip_start"
  /\ ~\E e \in events : e.tripId = t /\ e.type = "trip_end"

newestFirst(S) ==
  CHOOSE s \in S : \A f \in S \ {s} : f.ts < s.ts \/ (f.ts = s.ts /\ PkLess(s.id, f.id))

\* a getActiveTripId whose scan returns the newest trip_start without looking for its trip_end
getActiveTripIdAnyStart ==
  LET starts == {e \in events : e.type = "trip_start"}
  IN IF metaActiveTripId # 0 /\ liveTrip(metaActiveTripId) THEN metaActiveTripId
     ELSE IF starts # {} THEN newestFirst(starts).tripId
     ELSE 0

getActiveTripId ==
  LET starts == {e \in events : e.type = "trip_start" /\ liveTrip(e.tripId)}
  IN IF metaActiveTripId # 0 /\ liveTrip(metaActiveTripId) THEN metaActiveTripId
     ELSE IF starts # {} THEN newestFirst(starts).tripId
     ELSE 0

\* RouteTrackingSupervisor's hasOpenRest / hasOpenExpressway: no legacy fallback
hasOpenSession(tev, startType, endType, key) ==
  \E s \in OfType(tev, startType) :
    Extra(s, key) # 0 /\ ~\E en \in OfType(tev, endType) : Extra(en, key) = Extra(s, key)

\* which branch a pass takes for the decision it has read
decisionCase(decision, tripId) ==
  IF decision.tripId = 0 THEN "none"
  ELSE IF decision.tripId # tripId THEN "other"
  ELSE decision.action

passRecord(by, p, prompt, decision, wrote) ==
  [by |-> by, read |-> p.action, promptLeft |-> prompt = p.tripId,
   decisionLeft |-> decision.tripId = p.tripId, wrote |-> wrote]

\* an end of sync that starts route tracking whether or not the trip is resting
syncTrackingWithoutRestCheck(p) ==
  IF trackTrip = p.tripId THEN UNCHANGED <<trackTrip, rt, openCache>>
  ELSE /\ trackTrip' = p.tripId
       /\ rt' = expresswayRuntime0
       /\ openCache' = [tripId |-> p.tripId, checkedAt |-> 0, isOpen |-> FALSE]

\* the end of sync: stopRouteTracking while resting, startRouteTracking otherwise
syncTracking(p) ==
  IF p.openRest
  THEN /\ trackTrip' = 0
       /\ rt' = expresswayRuntime0
       /\ openCache' = [tripId |-> 0, checkedAt |-> 0, isOpen |-> FALSE]
  ELSE IF trackTrip = p.tripId THEN UNCHANGED <<trackTrip, rt, openCache>>
  ELSE /\ trackTrip' = p.tripId
       /\ rt' = expresswayRuntime0
       /\ openCache' = [tripId |-> p.tripId, checkedAt |-> 0, isOpen |-> FALSE]

\* sync: getActiveTripId, getEventsByTripId, getPendingExpresswayEndDecision
supervisorRead ==
  /\ sup.pc = "idle"
  /\ \E tripId \in {getActiveTripId} :
       /\ metaActiveTripId' = tripId
       /\ IF tripId = 0
          THEN /\ trackTrip' = 0
               /\ rt' = expresswayRuntime0
               /\ openCache' = [tripId |-> 0, checkedAt |-> 0, isOpen |-> FALSE]
               /\ pendingPrompt' = 0
               /\ pendingDecision' = NoDecision
               /\ notified' = 0
               /\ UNCHANGED <<sup, hist>>
          ELSE /\ sup' = [pc |-> "apply", tripId |-> tripId,
                          open |-> hasOpenSession(TripEvents(events, tripId), "expressway_start",
                                                  "expressway_end", "expresswaySessionId"),
                          openRest |-> hasOpenSession(TripEvents(events, tripId), "rest_start",
                                                      "rest_end", "restSessionId"),
                          action |-> decisionCase(pendingDecision, tripId), sawOpen |-> 0]
               /\ UNCHANGED <<trackTrip, rt, openCache, pendingPrompt, pendingDecision, notified, hist>>
  /\ UNCHANGED <<events, nextId, uuidAsc, clock, last, now, cbs, home, tracker, routePoints>>

\* sync: the branch for the decision read, up to endExpressway's read of the events
supervisorApply ==
  /\ sup.pc = "apply"
  /\ IF sup.action = "end" /\ sup.open
     THEN /\ sup' = [sup EXCEPT !.pc = "endWrite",
                                !.sawOpen = findOpenToggleSessionId(TripEvents(events, sup.tripId),
                                              "expressway_start", "expressway_end", "expresswaySessionId")]
          /\ UNCHANGED <<pendingPrompt, pendingDecision, notified, trackTrip, rt, openCache, hist>>
     ELSE /\ sup' = IdlePass
          /\ pendingPrompt' = IF sup.action \in {"keep", "end"}
                              THEN clearPendingExpresswayEndPrompt(pendingPrompt, sup.tripId)
                              ELSE pendingPrompt
          /\ pendingDecision' =
               IF sup.action = "end" \/ (sup.action = "keep" /\ ~sup.open)
               THEN clearPendingExpresswayEndDecision(pendingDecision, sup.tripId)
               ELSE IF sup.action = "other" THEN NoDecision
               ELSE pendingDecision
          /\ notified' = IF sup.action \in {"keep", "end"} /\ notified = sup.tripId THEN 0 ELSE notified
          /\ syncTracking(sup)
          /\ hist' = [hist EXCEPT !.pass = passRecord("sync", sup, pendingPrompt', pendingDecision',
                                                      sup.action = "none" /\
                                                      <<pendingPrompt', pendingDecision'>> #
                                                      <<pendingPrompt, pendingDecision>>)]
  /\ UNCHANGED <<events, nextId, uuidAsc, clock, metaActiveTripId, last, now, cbs, home, tracker, routePoints>>

\* sync: endExpressway's write, the clears after it and the end of the pass
supervisorEndWrite ==
  /\ sup.pc = "endWrite"
  /\ sup' = IdlePass
  /\ IF sup.sawOpen = 0
     THEN /\ last' = Call("expressway_end", FALSE)
          /\ hist' = [hist EXCEPT !.pass = passRecord("sync", sup, pendingPrompt, pendingDecision, FALSE)]
          /\ UNCHANGED <<events, nextId, clock, pendingPrompt, pendingDecision, notified,
                         trackTrip, rt, openCache>>
     ELSE \E id \in FreeIds :
          /\ events' = events \cup
               {IF sup.sawOpen = LEGACY
                THEN expresswayEvent(id, sup.tripId, "expressway_end", clock, "", 0)
                ELSE expresswayEvent(id, sup.tripId, "expressway_end", clock, "expresswaySessionId", sup.sawOpen)}
          /\ nextId' = nextId + 1
          /\ clock' = clock + 1
          /\ last' = Call("expressway_end", TRUE)
          /\ pendingPrompt' = clearPendingExpresswayEndPrompt(pendingPrompt, sup.tripId)
          /\ pendingDecision' = clearPendingExpresswayEndDecision(pendingDecision, sup.tripId)
          /\ notified' = IF notified = sup.tripId THEN 0 ELSE notified
          /\ syncTracking(sup)
          /\ hist' = [histAfterBreak(hist, FALSE) EXCEPT
                        !.pass = passRecord("sync", sup, pendingPrompt', pendingDecision', FALSE)]
  /\ UNCHANGED <<uuidAsc, metaActiveTripId, now, cbs, home, tracker, routePoints>>

\* HomeScreen refresh calling applyPendingExpresswayEndDecision: the events and the decision read
homeRead ==
  /\ home.pc = "idle"
  /\ metaActiveTripId # 0
  /\ home' = [pc |-> "apply", tripId |-> metaActiveTripId,
              open |-> findOpenToggleSessionId(TripEvents(events, metaActiveTripId), "expressway_start",
                                               "expressway_end", "expresswaySessionId") # 0,
              openRest |-> FALSE,
              action |-> decisionCase(pendingDecision, metaActiveTripId), sawOpen |-> 0]
  /\ UNCHANGED <<ledgerVars, now, trackTrip, rt, openCache, cbs, notified, sup, hist, tracker, routePoints>>

\* applyPendingExpresswayEndDecision: the branch taken, up to endExpressway's read of the events
homeApply ==
  /\ home.pc = "apply"
  /\ IF home.action = "end" /\ home.open
     THEN /\ home' = [home EXCEPT !.pc = "endWrite",
                                  !.sawOpen = findOpenToggleSessionId(TripEvents(events, home.tripId),
                                                "expressway_start", "expressway_end", "expresswaySessionId")]
          /\ pendingDecision' = clearPendingExpresswayEndDecision(pendingDecision, home.tripId)
          /\ UNCHANGED <<pendingPrompt, notified, hist>>
     ELSE /\ home' = IdlePass
          /\ pendingPrompt' = IF home.action \in {"keep", "end"}
                              THEN clearPendingExpresswayEndPrompt(pendingPrompt, home.tripId)
                              ELSE pendingPrompt
          /\ pendingDecision' =
               IF home.action = "end" THEN clearPendingExpresswayEndDecision(pendingDecision, home.tripId)
               ELSE IF home.action = "other" THEN NoDecision
               ELSE pendingDecision
          /\ notified' = IF home.action \in {"keep", "end"} /\ notified = home.tripId THEN 0 ELSE notified
          /\ hist' = [hist EXCEPT !.pass = passRecord("home", home, pendingPrompt', pendingDecision',
                                                      home.action = "none" /\
                                                      <<pendingPrompt', pendingDecision'>> #
                                                      <<pendingPrompt, pendingDecision>>)]
  /\ UNCHANGED <<events, nextId, uuidAsc, clock, metaActiveTripId, last,
                 now, trackTrip, rt, openCache, cbs, sup, tracker, routePoints>>

\* applyPendingExpresswayEndDecision: endExpressway's write and the clears after it
homeEndWrite ==
  /\ home.pc = "endWrite"
  /\ home' = IdlePass
  /\ IF home.sawOpen = 0
     THEN /\ last' = Call("expressway_end", FALSE)
          /\ hist' = [hist EXCEPT !.pass = passRecord("home", home, pendingPrompt, pendingDecision, FALSE)]
          /\ UNCHANGED <<events, nextId, clock, pendingPrompt, pendingDecision, notified>>
     ELSE \E id \in FreeIds :
          /\ events' = events \cup
               {IF home.sawOpen = LEGACY
                THEN expresswayEvent(id, home.tripId, "expressway_end", clock, "", 0)
                ELSE expresswayEvent(id, home.tripId, "expressway_end", clock, "expresswaySessionId", home.sawOpen)}
          /\ nextId' = nextId + 1
          /\ clock' = clock + 1
          /\ last' = Call("expressway_end", TRUE)
          /\ pendingPrompt' = clearPendingExpresswayEndPrompt(pendingPrompt, home.tripId)
          /\ pendingDecision' = clearPendingExpresswayEndDecision(pendingDecision, home.tripId)
          /\ notified' = IF notified = home.tripId THEN 0 ELSE notified
          /\ hist' = [histAfterBreak(hist, FALSE) EXCEPT
                        !.pass = passRecord("home", home, pendingPrompt', pendingDecision', FALSE)]
  /\ UNCHANGED <<uuidAsc, metaActiveTripId, now, trackTrip, rt, openCache, cbs, sup, tracker, routePoints>>

LedgerInit ==
  /\ events = {}
  /\ nextId = 1
  /\ uuidAsc \in BOOLEAN
  /\ clock = 1
  /\ metaActiveTripId = 0
  /\ pendingPrompt = 0
  /\ pendingDecision = NoDecision
  /\ last = Call("init", TRUE)
  /\ now = StartTime
  /\ trackTrip = 0
  /\ rt = expresswayRuntime0
  /\ openCache = [tripId |-> 0, checkedAt |-> 0, isOpen |-> FALSE]
  /\ cbs = [s \in Slots |-> IdleCallback]
  /\ notified = 0
  /\ sup = IdlePass
  /\ home = IdlePass
  /\ hist = hist0
  /\ tracker = tracker0
  /\ routePoints = {}

StartTrip ==
  /\ \E odoKm \in Odos : startTrip(odoKm)
  /\ UNCHANGED <<clock, detVars>>

EndTrip ==
  /\ \E tripId \in ExistingTrips, odoEndKm \in Odos : endTrip(tripId, odoEndKm)
  /\ UNCHANGED <<clock, detVars>>

DeleteTrip ==
  /\ \E tripId \in ExistingTrips : deleteTrip(tripId)
  /\ UNCHANGED <<clock, detVars>>

DeleteEvent ==
  /\ \E ev \in events : deleteEvent(ev)
  /\ UNCHANGED <<clock, detVars>>

StartRest ==
  /\ \E tripId \in ExistingTrips, odoKm \in Odos : startRest(tripId, odoKm)
  /\ UNCHANGED <<clock, detVars>>

EndRest ==
  /\ \E tripId \in ExistingTrips, dayClose \in BOOLEAN :
         \E s \in OfType(TripEvents(events, tripId), "rest_start") : endRest(tripId, s.sid, dayClose)
  /\ UNCHANGED <<clock, detVars>>

StartToggle ==
  /\ \E g \in TOGGLE_GROUPS \ {ExpresswayGroup}, tripId \in ExistingTrips :
         g.start # "rest_start" /\ startToggle(g, tripId)
  /\ UNCHANGED <<clock, detVars>>

EndToggle ==
  /\ \E g \in TOGGLE_GROUPS \ {ExpresswayGroup}, tripId \in ExistingTrips :
         g.end # "rest_end" /\ endToggle(g, tripId)
  /\ UNCHANGED <<clock, detVars>>

StartExpressway ==
  /\ \E tripId \in ExistingTrips : startExpressway(tripId)
  /\ UNCHANGED <<clock, detVars>>

EndExpressway ==
  /\ \E tripId \in ExistingTrips : endExpressway(tripId)
  /\ UNCHANGED <<clock, detVars>>

UpdateEventOdo ==
  /\ \E ev \in events, odoKm \in Odos : updateEventOdo(ev, odoKm)
  /\ UNCHANGED <<clock, detVars>>

UpdateEventTimestamp ==
  /\ \E ev \in events, ts \in Times : updateEventTimestamp(ev, ts)
  /\ UNCHANGED <<clock, detVars>>

UpdateEventType ==
  /\ \E ev \in events, nextType \in EVENT_TYPES : updateEventType(ev, nextType)
  /\ UNCHANGED <<clock, detVars>>

\* ------------------------------------------------- trips: start, end, delete
Init == LedgerInit
Next == Tick \/ StartTrip \/ EndTrip \/ DeleteTrip \/ DeleteEvent
vars == <<ledgerVars, detVars>>
Spec == Init /\ [][Next]_vars

\* the trips that have a trip_start and no trip_end
ActiveTrips ==
  {t \in ExistingTrips : /\ \E e \in events : e.tripId = t /\ e.type = "trip_start"
                         /\ ~\E e \in events : e.tripId = t /\ e.type = "trip_end"}

\* C1: in every state reachable through startTrip, endTrip, deleteTrip and
\* deleteEvent, at most one tripId has a trip_start event and no trip_end event.
C1_AtMostOneActiveTrip == Cardinality(ActiveTrips) <= 1

\* ------------------------------------------------ sessions: start* and end*
NextSessions ==
  Tick \/ StartTrip \/ StartRest \/ EndRest \/ StartToggle \/ EndToggle
       \/ StartExpressway \/ EndExpressway
SpecSessions == Init /\ [][NextSessions]_vars

\* the start events of a category in a trip that no end event answers with their session id
OpenStarts(g, tripId) ==
  LET tev == TripEvents(events, tripId)
  IN {s \in OfType(tev, g.start) :
        ~\E en \in OfType(tev, g.end) : Extra(en, g.key) # 0 /\ Extra(en, g.key) = Extra(s, g.key)}

\* C2: for each category (rest, break, load, unload, expressway) and each trip,
\* at most one start event has no end event carrying the same session id; a
\* start* call made while a session of the category is open writes nothing.
C2_AtMostOneOpenSession ==
  \A g \in TOGGLE_GROUPS, tripId \in ExistingTrips : Cardinality(OpenStarts(g, tripId)) <= 1

\* ------------------------------------------- odometer checkpoints and edits
RoomLeft == Cardinality(events) < MaxRows
CappedStartTrip == RoomLeft /\ StartTrip
CappedStartRest == RoomLeft /\ StartRest
CappedEndTrip == RoomLeft /\ EndTrip
NextOdo ==
  Tick \/ CappedStartTrip \/ CappedStartRest \/ CappedEndTrip
       \/ UpdateEventOdo \/ UpdateEventTimestamp \/ UpdateEventType \/ DeleteEvent
SpecOdo == Init /\ [][NextOdo]_vars

Checkpoints(tripId) ==
  {e \in TripEvents(events, tripId) : e.type \in {"trip_start", "rest_start", "trip_end"}}

\* C3: in every state reachable through startTrip, startRest, endTrip,
\* updateEventOdo, updateEventTimestamp, updateEventType and deleteEvent, the
\* odometer readings of a trip's checkpoint events (trip_start, rest_start,
\* trip_end), taken in timestamp order, never decrease.
C3_CheckpointOdoNonDecreasing ==
  \A tripId \in ExistingTrips :
    \A a, b \in Checkpoints(tripId) : a.ts < b.ts => a.odoKm <= b.odoKm

\* --------------------------------------------- the drive: detector and driver
\* the state once startTrip (and, on the expressway, startExpressway) has returned
\* and the supervisor has started route tracking for the trip
DriveState(onExpressway) ==
  /\ events = {Ev(1, 1, "trip_start", 1, 1, "", 0, "absent", 0, FALSE, 0, 0)} \cup
              (IF onExpressway
               THEN {expresswayEvent(2, 1, "expressway_start", 2, "expresswaySessionId", 2)}
               ELSE {})
  /\ nextId = IF onExpressway THEN 3 ELSE 2
  /\ clock = IF onExpressway THEN 3 ELSE 2
  /\ last = Call(IF onExpressway THEN "expressway_start" ELSE "startTrip", TRUE)
  /\ uuidAsc = TRUE
  /\ metaActiveTripId = 1
  /\ pendingPrompt = 0
  /\ pendingDecision = NoDecision
  /\ now = StartTime
  /\ trackTrip = 1
  /\ rt = expresswayRuntime0
  /\ openCache = [tripId |-> 1, checkedAt |-> 0, isOpen |-> FALSE]
  /\ cbs = [s \in Slots |-> IdleCallback]
  /\ notified = 0
  /\ sup = IdlePass
  /\ home = IdlePass
  /\ hist = hist0
  /\ tracker = tracker0
  /\ routePoints = {}

AllIdle == \A s \in Slots : cbs[s].pc = "idle"

\* fixes handled one after the other: a trace around the entry threshold, and one below it
EntryFix == \E dt \in EntryGaps, speed \in EntrySpeeds : AllIdle /\ recordLocation(1, dt, speed)
ExitFix == \E dt \in ExitGaps, speed \in ExitSpeeds : AllIdle /\ recordLocation(1, dt, speed)
\* a fix may arrive while earlier callbacks are suspended at an await
OverlappingFix ==
  \E s \in Slots, dt \in EntryGaps, speed \in EntrySpeeds :
    /\ now + dt <= MaxOverlapNow
    /\ \A q \in Slots : q < s => cbs[q].pc # "idle"
    /\ recordLocation(s, dt, speed)
ExitSignal == \E s \in Slots, allowEndBySignal \in BOOLEAN : exitSignal(s, allowEndBySignal)
EntrySignal == \E s \in Slots, allowStartBySignal \in BOOLEAN : entrySignal(s, allowStartBySignal)
EntryWrite == \E s \in Slots : entryWrite(s)
RestartRouteTracking == restartRouteTracking
UserEndExpressway ==
  /\ metaActiveTripId # 0
  /\ hasOpenExpressway(TripEvents(events, metaActiveTripId))
  /\ userEndExpressway(metaActiveTripId)
NotificationEnd == \E storageFails \in BOOLEAN : notificationActionEnd(storageFails)
NotificationKeep == notificationActionKeep
SupervisorRead == supervisorRead
SupervisorApply == supervisorApply
SupervisorEndWrite == supervisorEndWrite
HomeRead == homeRead
HomeApply == homeApply
HomeEndWrite == homeEndWrite

\* the drive up to the expressway: entry detection, manual end, tracking restarts
EntryInit == DriveState(FALSE)
NextEntry ==
  EntryFix \/ EntrySignal \/ EntryWrite \/ ExitSignal \/ RestartRouteTracking \/ UserEndExpressway
SpecEntry == EntryInit /\ [][NextEntry]_vars

\* the drive on the expressway: exit detection and the notification's answers
ExitInit == DriveState(TRUE)
NextExit == ExitFix \/ ExitSignal \/ NotificationEnd \/ NotificationKeep
SpecExit == ExitInit /\ [][NextExit]_vars

\* overlapping watcher callbacks
OverlapInit == \E onExpressway \in BOOLEAN : DriveState(onExpressway)
NextOverlap == OverlappingFix \/ ExitSignal \/ EntrySignal \/ EntryWrite
SpecOverlap == OverlapInit /\ [][NextOverlap]_vars

\* exit detection, the notification's answers and the reconciliation passes
NextReconcile ==
  ExitFix \/ ExitSignal \/ NotificationEnd \/ NotificationKeep
          \/ SupervisorRead \/ SupervisorApply \/ SupervisorEndWrite
          \/ HomeRead \/ HomeApply \/ HomeEndWrite
SpecReconcile == ExitInit /\ [][NextReconcile]_vars

\* C4: for any trip, a pending exit prompt and a pending exit decision are never
\* stored together, whatever the detector, the notification actions (their
\* failure path included) and the reconciliation passes have done.
C4_PromptXorDecision ==
  \A tripId \in ExistingTrips : ~(pendingPrompt = tripId /\ pendingDecision.tripId = tripId)

\* C5: with fixes handled one after the other, any two automatic expressway_start
\* events are at least the 60 s cooldown apart, also when the session was closed
\* in between and also across a tracking restart.
C5_NoAutoStartWithinCooldown ==
  \A i, j \in 1..Len(hist.autoStarts) :
    i < j => hist.autoStarts[j].at - hist.autoStarts[i].at >= cooldownSec

\* C6: when fix callbacks overlap, no callback writes an automatic expressway_start
\* after another callback has written one since it arrived, and no callback raises
\* a prompt after another callback has raised one since it arrived.
C6_OverlapActsOnce == ~hist.overlapStart /\ ~hist.overlapPrompt

\* C7: with an open session and the speed staying below the exit threshold, at
\* most one exit prompt is raised until the user decides.
C7_OnePromptUntilDecision == hist.quietPrompts <= 1

\* C8: after the user chose 'keep', no exit prompt is raised for a fix that arrives
\* before the speed has been at least exit threshold + margin for the minimum
\* recovery duration.
C8_KeepSuppressesUntilRecovery == ~hist.badKeepPrompt

\* the expressway_end events that carry the session id sid
EndsOf(sid) ==
  {e \in events : e.type = "expressway_end" /\ Extra(e, "expresswaySessionId") = sid}

\* C9: a stored 'end' decision is applied at most once, so no expressway session
\* has two expressway_end events carrying its session id, however the supervisor
\* sync and HomeScreen's apply pass interleave; and a pass that read no decision
\* has changed neither the prompt nor the decision.
C9_EndAppliedOnce ==
  /\ \A s \in events : s.type = "expressway_start" => Cardinality(EndsOf(s.sid)) <= 1
  /\ hist.pass.read = "none" => ~hist.pass.wrote

\* C10: when a pass that read an 'end' or 'keep' decision for the active trip has
\* completed, neither a prompt nor a decision for that trip is left stored.
C10_PassClearsBoth ==
  hist.pass.read \in {"end", "keep"} => ~hist.pass.promptLeft /\ ~hist.pass.decisionLeft

\* ------------------------------------------------ the active trip pointer
\* a caller resolving the active trip: the result, and the pointer as it was before
GetActiveTripId ==
  /\ \E r \in {getActiveTripId} :
       /\ metaActiveTripId' = r
       /\ last' = [op |-> "getActiveTripId", ok |-> TRUE, result |-> r,
                   pointerBefore |-> metaActiveTripId]
  /\ UNCHANGED <<events, nextId, uuidAsc, pendingPrompt, pendingDecision, clock, detVars>>

NextActive ==
  Tick \/ StartTrip \/ EndTrip \/ DeleteTrip \/ DeleteEvent \/ UpdateEventTimestamp
       \/ GetActiveTripId
SpecActive == Init /\ [][NextActive]_vars

\* the trip_start events with no trip_end of the same trip
UnmatchedStarts == {s \in events : s.type = "trip_start" /\ liveTrip(s.tripId)}

\* C11: getActiveTripId returns none exactly when every trip_start has a trip_end
\* of its trip, and otherwise the trip of an unmatched trip_start with the latest
\* timestamp, whatever the cached pointer holds.
C11_ResolvesLatestUnmatched ==
  last.op = "getActiveTripId" =>
    IF UnmatchedStarts = {} THEN last.result = 0
    ELSE \E s \in UnmatchedStarts :
           s.tripId = last.result /\ \A f \in UnmatchedStarts : f.ts <= s.ts

\* C12: once getActiveTripId has returned, the cached pointer equals its result
\* (absent when the result is none) and the result names a trip with a trip_start
\* and no trip_end, also when the pointer was missing or stale before the call.
C12_PointerRederived ==
  last.op = "getActiveTripId" =>
    /\ metaActiveTripId = last.result
    /\ last.result # 0 => liveTrip(last.result)

\* a call that found the pointer missing or stale and re-derived an active trip
C12_RederivedWitness ==
  /\ last.op = "getActiveTripId"
  /\ last.pointerBefore # last.result
  /\ last.result # 0

\* ------------------------------------------------------- day-close indices
\* one trip and its rests at one odometer reading, type edits among the rest
\* types and a plain marker
DayTypes == {"rest_start", "rest_end", "point_mark"}
DayOdo == 1
FirstStartTrip == /\ events = {}
                  /\ startTrip(DayOdo)
                  /\ UNCHANGED <<clock, detVars>>
DayStartRest == /\ \E tripId \in ExistingTrips : startRest(tripId, DayOdo)
                /\ UNCHANGED <<clock, detVars>>
RetypeEvent ==
  /\ \E ev \in events, nextType \in DayTypes : updateEventType(ev, nextType)
  /\ UNCHANGED <<clock, detVars>>
NextDayClose ==
  Tick \/ FirstStartTrip \/ DayStartRest \/ EndRest \/ DeleteEvent \/ UpdateEventTimestamp
       \/ RetypeEvent
SpecDayClose == Init /\ [][NextDayClose]_vars

\* the trip's day-closing rest_end events, and their indices being 1..N in ts order
DayCloses(evs, tripId) == {e \in TripEvents(evs, tripId) : e.type = "rest_end" /\ e.dayClose = "true"}
DayIndicesOrdered(evs, tripId) ==
  LET closes == DayCloses(evs, tripId)
  IN /\ {e.dayIndex : e \in closes} = 1..Cardinality(closes)
     /\ \A a, b \in closes : a.ts < b.ts => a.dayIndex < b.dayIndex

\* a type change touching rest_end: a row that is or becomes a rest_end is rewritten
TouchesRestEnd == \E e \in (events \ events') \cup (events' \ events) : e.type = "rest_end"

\* C13: when deleteEvent, updateEventTimestamp, or an updateEventType that changes a
\* row into or out of rest_end completes on a trip, that trip's day-closing rest_end
\* events carry dayIndex 1..N in ascending timestamp order, whatever they carried before.
C13_EditsRenumberDayCloses ==
  [][/\ (last'.op = "deleteEvent" /\ last'.ok) =>
          \A ev \in events : deleteEvent(ev) => DayIndicesOrdered(events', ev.tripId)
     /\ last'.op = "updateEventTimestamp" =>
          \A ev \in events, ts \in Times :
            updateEventTimestamp(ev, ts) => DayIndicesOrdered(events', ev.tripId)
     /\ (last'.op = "updateEventType" /\ last'.ok /\ TouchesRestEnd) =>
          \A ev \in events, nextType \in DayTypes :
            updateEventType(ev, nextType) => DayIndicesOrdered(events', ev.tripId)]_vars

\* a timestamp edit has put the day close created second before the one created first
C13_RenumberedWitness ==
  /\ last.op = "updateEventTimestamp"
  /\ \E a, b \in events :
       /\ a.tripId = b.tripId /\ {a, b} \subseteq DayCloses(events, a.tripId)
       /\ a.id < b.id /\ b.ts < a.ts
       /\ b.dayIndex = 1 /\ a.dayIndex = 2

\* C14: in every state reached through endRest, deleteEvent, updateEventTimestamp and
\* updateEventType, each trip's day-closing rest_end events carry dayIndex 1..N,
\* strictly increasing in timestamp order.
C14_DayIndicesContiguous == \A t \in ExistingTrips : DayIndicesOrdered(events, t)

\* ------------------------------------------------------- rejected operations
\* endRest called with any session id, known to the trip or not
EndRestAnySession ==
  /\ RoomLeft
  /\ \E tripId \in ExistingTrips, restSessionId \in EventIds, dayClose \in BOOLEAN :
       endRest(tripId, restSessionId, dayClose)
  /\ UNCHANGED <<clock, detVars>>
CappedStartToggle == RoomLeft /\ StartToggle
CappedEndToggle == RoomLeft /\ EndToggle
CappedStartExpressway == RoomLeft /\ StartExpressway
CappedEndExpressway == RoomLeft /\ EndExpressway
OnlyStartTrip == events = {} /\ StartTrip
NextReject ==
  Tick \/ OnlyStartTrip \/ CappedEndTrip \/ CappedStartRest \/ EndRestAnySession
       \/ CappedStartToggle \/ CappedEndToggle \/ CappedStartExpressway \/ CappedEndExpressway
       \/ DeleteEvent \/ RetypeEvent
SpecReject == Init /\ [][NextReject]_vars

LatestRestStarts(tripId) ==
  LET restStarts == OfType(TripEvents(events, tripId), "rest_start")
  IN {r \in restStarts : \A q \in restStarts : q.ts <= r.ts}

\* the end odometer is below the trip start's, or below the latest rest start's
BelowCheckpoint(tripId, odoEndKm) ==
  \/ \E s \in OfType(TripEvents(events, tripId), "trip_start") : odoEndKm < s.odoKm
  \/ /\ LatestRestStarts(tripId) # {}
     /\ \A r \in LatestRestStarts(tripId) : r.odoKm # 0 /\ odoEndKm < r.odoKm

\* C16: endTrip with an end odometer below the trip_start odometer, or below the
\* odometer of the trip's latest rest_start, throws: no trip_end row is written and
\* the active-trip pointer stays as it was.
C16_EndTripBelowCheckpointRejected ==
  [][last'.op = "endTrip" =>
       \A tripId \in ExistingTrips, odoEndKm \in Odos :
         (endTrip(tripId, odoEndKm) /\ BelowCheckpoint(tripId, odoEndKm))
           => /\ ~last'.ok
              /\ events' = events
              /\ metaActiveTripId' = metaActiveTripId]_vars

\* endTrip has thrown on the one trip, whose end odometer could only be below its rest start's
C16_RejectedWitness ==
  /\ last.op = "endTrip" /\ ~last.ok /\ metaActiveTripId # 0
  /\ Cardinality(ExistingTrips) = 1
  /\ \E s, r \in events : /\ s.type = "trip_start" /\ s.odoKm = 1
                          /\ r.type = "rest_start" /\ r.odoKm > s.odoKm
  /\ ~\E e \in events : e.type = "trip_end"

\* ------------------------------------------- domain/metrics and the trip view
\* a JavaScript number: an integer, or NaN
Num(v) == [nan |-> FALSE, v |-> v]
NaN == [nan |-> TRUE, v |-> 0]
\* to - from of two odometer readings, either of which may be undefined (0)
jsSub(to, from) == IF to = 0 \/ from = 0 THEN NaN ELSE Num(to - from)
jsGe0(x) == ~x.nan /\ x.v >= 0
jsLt0(x) == ~x.nan /\ x.v < 0

Point(label, n, odo) == [label |-> label, n |-> n, odo |-> odo]

\* computeSegments: restStarts is the set of rest_start rows; tripEnd is passed when hasEnd
computeSegments(odoStart, restStarts, hasEnd, odoEnd) ==
  LET rs == SortByTs(restStarts)
      points == <<Point("trip_start", 0, odoStart)>>
                  \o [i \in 1..Len(rs) |-> Point("rest_start", i, rs[i].odoKm)]
                  \o (IF hasEnd THEN <<Point("trip_end", 0, odoEnd)>> ELSE <<>>)
  IN IF Len(points) = 1 THEN <<>>
     ELSE [i \in 1..(Len(points) - 1) |->
             LET from == points[i]
                 to == points[i + 1]
                 km == jsSub(to.odo, from.odo)
             IN [index |-> i, fromLabel |-> <<from.label, from.n>>, toLabel |-> <<to.label, to.n>>,
                 fromOdo |-> from.odo, toOdo |-> to.odo, km |-> km, valid |-> jsGe0(km)]]

\* the day runs pushed for the boundaries, in order
RECURSIVE dayRunsFrom(_, _, _)
dayRunsFrom(boundaries, prevOdo, prevDayIndex) ==
  IF boundaries = <<>> THEN <<>>
  ELSE LET b == Head(boundaries)
       IN <<[dayIndex |-> b.dayIndex, from |-> prevDayIndex, to |-> "close",
             km |-> b.boundaryOdo - prevOdo, closeOdo |-> b.boundaryOdo, status |-> "confirmed"]>>
            \o dayRunsFrom(Tail(boundaries), b.boundaryOdo, b.dayIndex)

\* computeDayRuns: restStarts / restEnds are the sets of rest rows; odoEnd is passed when hasEnd
computeDayRuns(odoStart, restStarts, restEnds, hasEnd, odoEnd) ==
  LET rs == SortByTs(restStarts)
      re == SortByTs(restEnds)
      \* startOdoBySession.get(sid): the last rest_start set under the id wins, 0 when undefined
      startOdo(sid) ==
        LET at == {i \in 1..Len(rs) : Extra(rs[i], "restSessionId") = sid}
        IN IF at = {} THEN 0 ELSE rs[CHOOSE i \in at : \A j \in at : j <= i].odoKm
      closes == SelectSeq(re, LAMBDA e : e.dayClose = "true")
      all == [idx \in 1..Len(closes) |->
                [dayIndex |-> IF closes[idx].dayIndex # 0 THEN closes[idx].dayIndex ELSE idx,
                 boundaryOdo |-> startOdo(Extra(closes[idx], "restSessionId")),
                 ts |-> closes[idx].ts]]
      \* closes are in ts order already, so the stable sort of boundaries keeps them
      boundaries == IF Len(closes) = 0 THEN <<>> ELSE SelectSeq(all, LAMBDA b : b.boundaryOdo # 0)
      days == dayRunsFrom(boundaries, odoStart, 0)
      prevOdo == IF boundaries = <<>> THEN odoStart ELSE boundaries[Len(boundaries)].boundaryOdo
      prevDayIndex == IF boundaries = <<>> THEN 0 ELSE boundaries[Len(boundaries)].dayIndex
  IN IF hasEnd
       THEN days \o <<[dayIndex |-> prevDayIndex + 1, from |-> prevDayIndex, to |-> "trip_end",
                       km |-> odoEnd - prevOdo, closeOdo |-> odoEnd, status |-> "confirmed"]>>
     ELSE IF prevDayIndex >= 0
       THEN days \o <<[dayIndex |-> prevDayIndex + 1, from |-> prevDayIndex, to |-> "pending",
                       km |-> 0, closeOdo |-> 0, status |-> "pending"]>>
     ELSE days

\* segments.reduce((acc, s) => acc + (s.valid ? s.km : 0), 0)
RECURSIVE segSum(_)
segSum(segments) ==
  IF segments = <<>> THEN 0
  ELSE (IF Head(segments).valid THEN Head(segments).km.v ELSE 0) + segSum(Tail(segments))

NoTripViewModel(tripId) ==
  [tripId |-> tripId, hasStart |-> FALSE, hasTripEnd |-> FALSE, odoStart |-> 0, odoEnd |-> 0,
   totalKm |-> 0, lastLegKm |-> 0, totalsValid |-> TRUE, segments |-> <<>>, dayRuns |-> <<>>,
   ok |-> FALSE]

\* buildTripViewModel, without the timeline
buildTripViewModel(tripId, evs) ==
  LET tev == TripEvents(evs, tripId)
      starts == OfType(tev, "trip_start")
      ends == OfType(tev, "trip_end")
      restStarts == OfType(tev, "rest_start")
      restEnds == OfType(tev, "rest_end")
  IN IF starts = {} THEN NoTripViewModel(tripId)
     ELSE LET odoStart == FirstOf(starts).odoKm
              odoEnd == IF ends = {} THEN 0 ELSE LastOf(ends).odoKm
              hasEnd == odoEnd # 0
              unmatched == \E en \in restEnds :
                             ~\E r \in restStarts : Extra(r, "restSessionId") = Extra(en, "restSessionId")
              segments == computeSegments(odoStart, restStarts, hasEnd, odoEnd)
              dayRuns == computeDayRuns(odoStart, restStarts, restEnds, hasEnd, odoEnd)
              lastRestStartOdo == IF restStarts # {} THEN LastOf(restStarts).odoKm ELSE 0
              totals == computeTotals(odoStart, odoEnd, lastRestStartOdo # 0, lastRestStartOdo)
          IN [tripId |-> tripId, hasStart |-> TRUE, hasTripEnd |-> hasEnd,
              odoStart |-> odoStart, odoEnd |-> odoEnd,
              totalKm |-> IF hasEnd THEN totals.totalKm ELSE 0,
              lastLegKm |-> IF hasEnd THEN totals.lastLegKm ELSE 0,
              totalsValid |-> hasEnd => totals.valid,
              segments |-> segments, dayRuns |-> dayRuns,
              ok |-> /\ ~unmatched
                     /\ \A i \in 1..Len(segments) : segments[i].valid
                     /\ hasEnd => (totals.valid /\ segSum(segments) = totals.totalKm)]

\* TripDetail: the view model of a trip built from the rows read
BuildTripViewModel ==
  /\ \E tripId \in ExistingTrips :
       last' = [op |-> "buildTripViewModel", ok |-> TRUE, vm |-> buildTripViewModel(tripId, events)]
  /\ UNCHANGED <<events, nextId, uuidAsc, metaActiveTripId, pendingPrompt, pendingDecision, clock, detVars>>

\* the ledger once startTrip, startRest, endRest, startRest, endRest and endTrip have
\* returned, both rests closing a day: ids 1..6, odometers accepted by those calls
EndedTripInit ==
  /\ \E oS \in Odos, o1 \in Odos, o2 \in Odos, oE \in Odos :
       /\ oS <= o1 /\ o1 <= o2 /\ o2 <= oE
       /\ events = {Ev(1, 1, "trip_start", 1, oS, "", 0, "absent", 0, FALSE, 0, 0),
                    Ev(2, 1, "rest_start", 1, o1, "restSessionId", 2, "absent", 0, FALSE, 0, 0),
                    Ev(3, 1, "rest_end", 1, 0, "restSessionId", 2, "true", 1, FALSE, 0, 0),
                    Ev(4, 1, "rest_start", 2, o2, "restSessionId", 4, "absent", 0, FALSE, 0, 0),
                    Ev(5, 1, "rest_end", 2, 0, "restSessionId", 4, "true", 2, FALSE, 0, 0),
                    Ev(6, 1, "trip_end", 2, oE, "", 0, "absent", 0, TRUE, oE - oS, oE - o2)}
  /\ nextId = 7
  /\ uuidAsc \in BOOLEAN
  /\ clock = 2
  /\ metaActiveTripId = 0
  /\ pendingPrompt = 0
  /\ pendingDecision = NoDecision
  /\ last = Call("endTrip", TRUE)
  /\ now = StartTime /\ trackTrip = 0 /\ rt = expresswayRuntime0
  /\ openCache = [tripId |-> 0, checkedAt |-> 0, isOpen |-> FALSE]
  /\ cbs = [s \in Slots |-> IdleCallback]
  /\ notified = 0 /\ sup = IdlePass /\ home = IdlePass /\ hist = hist0
  /\ tracker = tracker0
  /\ routePoints = {}

\* the edits of the trip detail screen: a rest start's odometer, a rest end's time
EditRestStartOdo ==
  /\ \E ev \in OfType(events, "rest_start"), odoKm \in Odos : updateEventOdo(ev, odoKm)
  /\ UNCHANGED <<clock, detVars>>
EditRestEndTime ==
  /\ \E ev \in OfType(events, "rest_end"), ts \in Times : updateEventTimestamp(ev, ts)
  /\ UNCHANGED <<clock, detVars>>
\* a rest start changed into a rest end, its pair becoming the rest start
RetypeRestStart ==
  /\ \E ev \in OfType(events, "rest_start") : updateEventType(ev, "rest_end")
  /\ UNCHANGED <<clock, detVars>>
\* one trip written from the empty ledger, edited and viewed
NextView ==
  Tick \/ OnlyStartTrip \/ StartRest \/ EndRest \/ EndTrip
       \/ EditRestStartOdo \/ RetypeRestStart \/ BuildTripViewModel
SpecView == Init /\ [][NextView]_vars

\* the ended trip with two day closes, edited and viewed
NextDayRuns == EditRestStartOdo \/ EditRestEndTime \/ DeleteEvent \/ BuildTripViewModel
SpecDayRuns == EndedTripInit /\ [][NextDayRuns]_vars

\* the odometers of the trip's checkpoints: trip start, rest starts in ts order, trip end if present
CheckpointOdos(tripId) ==
  LET tev == TripEvents(events, tripId)
      rs == SortByTs(OfType(tev, "rest_start"))
      ends == OfType(tev, "trip_end")
  IN <<FirstOf(OfType(tev, "trip_start")).odoKm>>
       \o [i \in 1..Len(rs) |-> rs[i].odoKm]
       \o (IF ends # {} THEN <<LastOf(ends).odoKm>> ELSE <<>>)

\* C17: computeSegments emits exactly one segment per adjacent pair of checkpoints
\* (trip start, rest starts in timestamp order, trip end if present), each with
\* km = toOdo - fromOdo and valid = false exactly when km < 0.
C17_OneSegmentPerPair ==
  (last.op = "buildTripViewModel" /\ last.vm.hasStart) =>
    LET segs == last.vm.segments
        cps == CheckpointOdos(last.vm.tripId)
    IN /\ Len(segs) = Len(cps) - 1
       /\ \A i \in 1..Len(segs) :
            /\ segs[i].fromOdo = cps[i] /\ segs[i].toOdo = cps[i + 1]
            /\ segs[i].km = jsSub(cps[i + 1], cps[i])
            /\ (~segs[i].valid) <=> jsLt0(segs[i].km)

\* C18: for an ended trip, the km of the segments computeSegments marks valid sum
\* to the totalKm that computeTotals returns.
C18_ValidSegmentsSumToTotal ==
  (last.op = "buildTripViewModel" /\ last.vm.hasTripEnd) =>
    segSum(last.vm.segments) = last.vm.totalKm

RECURSIVE dayKmSum(_)
dayKmSum(dayRuns) ==
  IF dayRuns = <<>> THEN 0 ELSE Head(dayRuns).km + dayKmSum(Tail(dayRuns))

\* the day runs close at segment ends taken in order, the last one at the last
\* segment: each day run is a run of consecutive segments after position pos
RECURSIVE CoversFrom(_, _, _, _)
CoversFrom(dayRuns, segments, odoStart, pos) ==
  IF dayRuns = <<>> THEN pos = Len(segments)
  ELSE \E i \in pos..Len(segments) :
         /\ (IF i = 0 THEN odoStart ELSE segments[i].toOdo) = Head(dayRuns).closeOdo
         /\ CoversFrom(Tail(dayRuns), segments, odoStart, i)

\* C19: for an ended trip, the day runs of computeDayRuns cover the trip's segments
\* with no overlap and no gap, and their km sum to totalKm = odoEnd - odoStart.
C19_DayRunsCoverSegments ==
  (last.op = "buildTripViewModel" /\ last.vm.hasTripEnd) =>
    /\ dayKmSum(last.vm.dayRuns) = last.vm.odoEnd - last.vm.odoStart
    /\ last.vm.totalKm = last.vm.odoEnd - last.vm.odoStart
    /\ CoversFrom(last.vm.dayRuns, last.vm.segments, last.vm.odoStart, 0)

\* lastLegKm is the end odometer less the odometer of a rest_start with the latest
\* timestamp, or totalKm when there is no rest_start or that one carries no odometer
LastLegFrom(tripId, odoEnd, totalKm, lastLegKm) ==
  IF LatestRestStarts(tripId) = {} THEN lastLegKm = totalKm
  ELSE \E r \in LatestRestStarts(tripId) :
         lastLegKm = IF r.odoKm # 0 THEN odoEnd - r.odoKm ELSE totalKm

\* C20: computeTotals returns totalKm = odoEnd - odoStart, lastLegKm = odoEnd -
\* lastRestStartOdo when a rest start odometer is passed and totalKm otherwise, and
\* valid exactly when both are >= 0; the trip_end row a successful endTrip writes
\* carries exactly these totalKm and lastLegKm.
C20_TotalsComputedAndStored ==
  /\ (last.op = "endTrip" /\ last.ok) =>
       \E e \in events :
         /\ e.id = nextId - 1 /\ e.type = "trip_end" /\ e.hasTotals
         /\ \E s \in OfType(TripEvents(events, e.tripId), "trip_start") :
              /\ e.totalKm = e.odoKm - s.odoKm
              /\ LastLegFrom(e.tripId, e.odoKm, e.totalKm, e.lastLegKm)
  /\ (last.op = "buildTripViewModel" /\ last.vm.hasTripEnd) =>
       /\ last.vm.totalKm = last.vm.odoEnd - last.vm.odoStart
       /\ LastLegFrom(last.vm.tripId, last.vm.odoEnd, last.vm.totalKm, last.vm.lastLegKm)
       /\ last.vm.totalsValid <=> (last.vm.totalKm >= 0 /\ last.vm.lastLegKm >= 0)

\* endTrip has stored a last leg shorter than the whole distance
C20_StoredWitness ==
  /\ last.op = "endTrip" /\ last.ok
  /\ \E e \in events : /\ e.id = nextId - 1 /\ e.type = "trip_end"
                       /\ e.lastLegKm < e.totalKm
                       /\ OfType(TripEvents(events, e.tripId), "rest_start") # {}

\* C21: for a trip with k day-close boundaries (rest_end rows with dayClose = true)
\* computeDayRuns returns k confirmed runs followed by one final run, confirmed with
\* km = odoEnd less the last boundary odometer when the trip has a trip_end, and
\* pending while the trip is open.
C21_RunPerBoundaryThenFinal ==
  (last.op = "buildTripViewModel" /\ last.vm.hasStart) =>
    LET runs == last.vm.dayRuns
        k == Cardinality(DayCloses(events, last.vm.tripId))
    IN /\ Len(runs) = k + 1
       /\ \A i \in 1..k : runs[i].status = "confirmed" /\ runs[i].to = "close"
       /\ IF last.vm.hasTripEnd
            THEN /\ runs[k + 1].status = "confirmed" /\ runs[k + 1].to = "trip_end"
                 /\ runs[k + 1].km =
                      last.vm.odoEnd - (IF k = 0 THEN last.vm.odoStart ELSE runs[k].closeOdo)
          ELSE runs[k + 1].status = "pending"

\* ------------------------------------------------- the answer 'end' to the prompt
\* the drive on the expressway, the prompt answered on the notification or in the app
NextChoice == ExitFix \/ ExitSignal \/ NotificationEnd \/ NotificationKeep \/ UserEndExpressway
SpecChoice == ExitInit /\ [][NextChoice]_vars

\* the expressway_start rows of a trip that no expressway_end answers with their session id
OpenExpresswayStarts(evs, tripId) ==
  {s \in OfType(TripEvents(evs, tripId), "expressway_start") :
     ~\E en \in OfType(TripEvents(evs, tripId), "expressway_end") :
        Extra(en, "expresswaySessionId") = Extra(s, "expresswaySessionId")}

\* C22: when the user chooses 'end' (notification action or in the app) while an
\* expressway session is open, an expressway_end carrying the open session's id is
\* written, the session is closed, and no prompt and no decision for the trip stays stored.
C22_EndChoiceClosesSession ==
  [][\A tripId \in ExistingTrips :
       (/\ OpenExpresswayStarts(events, tripId) # {}
        /\ \/ notified = tripId /\ notificationActionEnd(FALSE)
           \/ userEndExpressway(tripId))
       => /\ \E s \in OpenExpresswayStarts(events, tripId), e \in events' \ events :
               /\ e.type = "expressway_end" /\ e.tripId = tripId
               /\ Extra(e, "expresswaySessionId") = Extra(s, "expresswaySessionId")
          /\ OpenExpresswayStarts(events', tripId) = {}
          /\ pendingPrompt' # tripId
          /\ pendingDecision'.tripId # tripId]_vars

\* the notification's 'end' has closed the session the prompt was raised for
C22_EndChosenWitness ==
  /\ last = Call("expressway_end", TRUE) /\ hist.nPrompts >= 1 /\ notified = 0
  /\ \E s, e \in events : /\ s.type = "expressway_start" /\ e.type = "expressway_end"
                          /\ e.sid = s.sid /\ e.sid # 0

\* ------------------------------------------------- edits of a trip's toggle events
\* one trip whose load and break sessions are started, ended and then edited
EditGroups == {g \in TOGGLE_GROUPS : g.start \in {"load_start", "break_start"}}
EditTypes == {"load_start", "load_end", "break_start", "break_end"}
StartEditToggle ==
  /\ \E g \in EditGroups, tripId \in ExistingTrips : startToggle(g, tripId)
  /\ UNCHANGED <<clock, detVars>>
EndEditToggle ==
  /\ \E g \in EditGroups, tripId \in ExistingTrips : endToggle(g, tripId)
  /\ UNCHANGED <<clock, detVars>>
RetypeToggle ==
  /\ \E ev \in events, nextType \in EditTypes : updateEventType(ev, nextType)
  /\ UNCHANGED <<clock, detVars>>
MoveToggle ==
  /\ \E ev \in events, ts \in Times : ev.type \in EditTypes /\ updateEventTimestamp(ev, ts)
  /\ UNCHANGED <<clock, detVars>>
NextEdits ==
  Tick \/ FirstStartTrip \/ StartEditToggle \/ EndEditToggle \/ DeleteEvent
       \/ MoveToggle \/ RetypeToggle
SpecEdits == Init /\ [][NextEdits]_vars

\* p is the event paired with ev by session id in ev's category
PairedBySession(ev, p) ==
  LET g == getToggleGroupByType(ev.type)
  IN /\ p.tripId = ev.tripId /\ p.id # ev.id
     /\ {ev.type, p.type} = {g.start, g.end}
     /\ Extra(ev, g.key) # 0 /\ Extra(p, g.key) = Extra(ev, g.key)

\* C23: updateEventType on a toggle event either re-tags the event and the event
\* paired with it by session id, so that the two have the start and end types of the
\* new category and share one session id under the new category's key, no other
\* event being modified, or fails leaving every event unchanged.
C23_RetagsSessionPairOrFails ==
  [][\A ev \in events, nextType \in EditTypes :
       (/\ last'.op = "updateEventType"
        /\ getToggleGroupByType(ev.type) # NoGroup
        /\ getToggleGroupByType(nextType) # getToggleGroupByType(ev.type)
        /\ updateEventType(ev, nextType))
       => IF last'.ok
            THEN LET g == getToggleGroupByType(nextType)
                 IN \E p \in events : \E e2, p2 \in events' :
                      /\ PairedBySession(ev, p)
                      /\ e2.id = ev.id /\ p2.id = p.id
                      /\ e2.type = nextType /\ {e2.type, p2.type} = {g.start, g.end}
                      /\ e2.skey = g.key /\ p2.skey = g.key
                      /\ e2.sid # 0 /\ e2.sid = p2.sid
                      /\ events' \ {e2, p2} = events \ {ev, p}
          ELSE events' = events]_vars

\* C24: deleteEvent, updateEventTimestamp and updateEventType, applied to a trip with
\* at most one open session in each category, are either rejected or leave at most
\* one open session in each category.
C24_EditsKeepOneOpenSession ==
  [][\A tripId \in ExistingTrips :
       (/\ last'.op \in {"deleteEvent", "updateEventTimestamp", "updateEventType"}
        /\ \A g \in TOGGLE_GROUPS : Cardinality(OpenStarts(g, tripId)) <= 1)
       => \/ ~last'.ok
          \/ \A g \in TOGGLE_GROUPS : Cardinality(OpenStarts(g, tripId)') <= 1]_vars

\* C26: deleteEvent and updateEventType never remove or re-type a trip_start: after
\* every such call each trip_start is still present with type trip_start, and the
\* call that named a trip_start was rejected.
C26_TripStartKept ==
  [][\A ev \in events :
       (ev.type = "trip_start" /\ last'.op \in {"deleteEvent", "updateEventType"})
       => /\ \E e2 \in events' : e2.id = ev.id /\ e2.type = "trip_start"
          /\ (deleteEvent(ev) \/ \E nextType \in EditTypes : updateEventType(ev, nextType))
               => (~last'.ok /\ events' = events)]_vars

\* a deleteEvent on the trip_start has been rejected with events of the trip written
C26_RejectedWitness ==
  /\ last = Call("deleteEvent", FALSE)
  /\ \E e \in events : e.type = "trip_start"
  /\ \E e \in events : e.type = "load_end"

\* C25: for a category whose events all carry session ids, the open-session resolver
\* reports a session open exactly when some start event has no end event carrying its
\* id, returning the newest such start's id, and reports none when every start has
\* an end carrying its id, whatever the timestamps are.
C25_ResolverFollowsSessionIds ==
  \A g \in TOGGLE_GROUPS, tripId \in ExistingTrips :
    LET tev == TripEvents(events, tripId)
        open == findOpenToggleSessionId(tev, g.start, g.end, g.key)
    IN (\A e \in OfType(tev, g.start) \cup OfType(tev, g.end) : Extra(e, g.key) # 0)
       => IF OpenStarts(g, tripId) = {} THEN open = 0
          ELSE open = Extra(LastOf(OpenStarts(g, tripId)), g.key)

\* ------------------------------------------------- switching the location watcher
\* (native platform: BackgroundGeolocation.addWatcher / removeWatcher are awaited)
CallAt(t, c, pc, tripId, mode, id) ==
  [t EXCEPT !.calls[c] = [pc |-> pc, tripId |-> tripId, mode |-> mode, id |-> id]]

\* resetAutoExpresswayRuntime together with lastPoint = null
resetAutoExpresswayRuntime(t) == [t EXCEPT !.lastPoint = FALSE, !.runtimeSet = FALSE]

\* stopRouteTracking up to its await: the watcher id is forgotten and its removal requested
stopRouteTrackingSync(t) ==
  [resetAutoExpresswayRuntime(t) EXCEPT !.activeTripId = 0, !.bgWatcherId = 0,
                                       !.registered = @ \ {t.bgWatcherId}]

\* startRouteTracking from its second check to the addWatcher call
startAfterStop(t, c, tripId, mode) ==
  IF t.bgWatcherId # 0 /\ t.currentMode = mode /\ t.activeTripId = tripId
    THEN CallAt(t, c, "idle", 0, "precision", 0)
  ELSE LET t1 == [resetAutoExpresswayRuntime(t) EXCEPT !.currentMode = mode, !.activeTripId = tripId]
       IN IF t1.bgWatcherId # 0 THEN CallAt(t1, c, "idle", 0, "precision", 0)
          ELSE [CallAt(t1, c, "adding", tripId, mode, t1.nextWatcher)
                  EXCEPT !.nextWatcher = @ + 1, !.fresh = TRUE]

startRouteTracking(c, tripId, mode) ==
  LET running == tracker.bgWatcherId # 0
      shouldRestart == running /\ (tracker.currentMode # mode \/ tracker.activeTripId # tripId)
  IN /\ tracker.calls[c].pc = "idle"
     /\ tracker.nextWatcher <= MaxWatchers
     /\ tracker' = IF shouldRestart
                     THEN CallAt(stopRouteTrackingSync(tracker), c, "restarting", tripId, mode,
                                 tracker.bgWatcherId)
                   ELSE startAfterStop(tracker, c, tripId, mode)
     /\ UNCHANGED <<ledgerVars, now, trackTrip, rt, openCache, cbs, notified, sup, home, hist, routePoints>>

\* the removeWatcher awaited by startRouteTracking's stopRouteTracking has resolved
restartContinues(c) ==
  /\ tracker.calls[c].pc = "restarting"
  /\ tracker' = startAfterStop(tracker, c, tracker.calls[c].tripId, tracker.calls[c].mode)
  /\ UNCHANGED <<ledgerVars, now, trackTrip, rt, openCache, cbs, notified, sup, home, hist, routePoints>>

\* addWatcher has resolved: the watcher is registered and its id is stored
addWatcherResolved(c) ==
  /\ tracker.calls[c].pc = "adding"
  /\ tracker' = [CallAt(tracker, c, "idle", 0, "precision", 0)
                   EXCEPT !.bgWatcherId = tracker.calls[c].id,
                          !.registered = @ \cup {tracker.calls[c].id}]
  /\ UNCHANGED <<ledgerVars, now, trackTrip, rt, openCache, cbs, notified, sup, home, hist, routePoints>>

stopRouteTracking(c) ==
  /\ tracker.calls[c].pc = "idle"
  /\ tracker.activeTripId # 0 \/ tracker.bgWatcherId # 0
  /\ tracker' = IF tracker.bgWatcherId # 0
                   THEN CallAt(stopRouteTrackingSync(tracker), c, "stopping", 0, "precision",
                               tracker.bgWatcherId)
                 ELSE stopRouteTrackingSync(tracker)
  /\ UNCHANGED <<ledgerVars, now, trackTrip, rt, openCache, cbs, notified, sup, home, hist, routePoints>>

\* the removeWatcher awaited by stopRouteTracking has resolved
stopResolved(c) ==
  /\ tracker.calls[c].pc = "stopping"
  /\ tracker' = CallAt(tracker, c, "idle", 0, "precision", 0)
  /\ UNCHANGED <<ledgerVars, now, trackTrip, rt, openCache, cbs, notified, sup, home, hist, routePoints>>

\* a registered watcher delivers a fix: recordLocation up to await addRoutePoint
watcherFix(w) ==
  /\ w \in tracker.registered
  /\ tracker.fixes[w] = "idle"
  /\ tracker.activeTripId # 0
  /\ tracker' = [tracker EXCEPT !.lastPoint = TRUE, !.fixes[w] = "addRoutePoint",
                                !.fresh = IF w = tracker.bgWatcherId THEN FALSE ELSE @]
  /\ UNCHANGED <<ledgerVars, now, trackTrip, rt, openCache, cbs, notified, sup, home, hist, routePoints>>

\* maybeHandleNativeAutoExpressway up to the road-graph query: deriveAccelerationMs2 and
\* the speed timers are written when a trip is tracked; the query is awaited or not
afterAddRoutePoint(w, queries) ==
  /\ tracker.fixes[w] = "addRoutePoint"
  /\ tracker' = IF tracker.activeTripId = 0 THEN [tracker EXCEPT !.fixes[w] = "idle"]
                 ELSE [tracker EXCEPT !.runtimeSet = TRUE,
                                      !.fixes[w] = IF queries THEN "detectExpresswaySignal" ELSE "idle"]
  /\ UNCHANGED <<ledgerVars, now, trackTrip, rt, openCache, cbs, notified, sup, home, hist, routePoints>>

\* after the road-graph query: speedAboveSince / speedBelowSince, inFlight, lastActionAt
afterDetectExpresswaySignal(w) ==
  /\ tracker.fixes[w] = "detectExpresswaySignal"
  /\ tracker' = [tracker EXCEPT !.runtimeSet = TRUE, !.fixes[w] = "idle"]
  /\ UNCHANGED <<ledgerVars, now, trackTrip, rt, openCache, cbs, notified, sup, home, hist, routePoints>>

StartRouteTracking ==
  \E c \in Callers, tripId \in {1}, mode \in Modes : startRouteTracking(c, tripId, mode)
RestartContinues == \E c \in Callers : restartContinues(c)
AddWatcherResolved == \E c \in Callers : addWatcherResolved(c)
StopRouteTracking == \E c \in Callers : stopRouteTracking(c)
StopResolved == \E c \in Callers : stopResolved(c)
WatcherFix == \E w \in Watchers : watcherFix(w)
AfterAddRoutePoint == \E w \in Watchers, queries \in BOOLEAN : afterAddRoutePoint(w, queries)
AfterDetectExpresswaySignal == \E w \in Watchers : afterDetectExpresswaySignal(w)
NextTracking ==
  StartRouteTracking \/ RestartContinues \/ AddWatcherResolved \/ StopRouteTracking
       \/ StopResolved \/ WatcherFix \/ AfterAddRoutePoint \/ AfterDetectExpresswaySignal
SpecTracking == Init /\ [][NextTracking]_vars

\* C27: at most one location watcher is registered at any time, also when
\* startRouteTracking is invoked again before an earlier addWatcher has resolved,
\* and every registered watcher's id is the one retained for stopRouteTracking.
C27_OneWatcherRetained ==
  /\ Cardinality(tracker.registered) <= 1
  /\ \A w \in tracker.registered : w = tracker.bgWatcherId

\* C28: from the reset made by a switch of tracking until the new watcher's first
\* fix, the fusion and hysteresis state stays reset: no last point, no speed, timer
\* or acceleration mark is written by a callback of the previous watcher.
C28_FirstFixSeesResetState ==
  tracker.fresh => ~tracker.lastPoint /\ ~tracker.runtimeSet

\* ------------------------------------------------- the road-graph query
\* An endpoint's answer: the fetch throws or is aborted by the timer, the status is
\* not ok, or a body arrives. A body is reduced to the distance of its nearest named
\* junction (0 = none), whether it holds a motorway way, and a toll node in range.
nearIcRadiusM == 1200
Responses == {"error", "notOk", "ok"}
Elements == [icDistanceM : {0, 1000, 3000}, motorway : BOOLEAN, tollNode : BOOLEAN]
Queries == {<<"error", "error">>, <<"error", "notOk">>, <<"notOk", "error">>, <<"notOk", "notOk">>,
            <<"ok", "ok">>, <<"error", "ok">>, <<"notOk", "ok">>}

\* queryExpresswayOverpass: the body of the first endpoint that answers, else null
queryExpresswayOverpass(responses) == \E i \in 1..Len(responses) : responses[i] = "ok"

unresolvedSignal ==
  [resolved |-> FALSE, onExpresswayRoad |-> FALSE, nearIc |-> FALSE, nearEtcGate |-> FALSE,
   nearestIc |-> 0]

\* a road-graph query that reports "resolved, nothing found" when it is unavailable
detectExpresswaySignalAsResolved(onLine, responses, elements) ==
  IF onLine /\ queryExpresswayOverpass(responses)
    THEN [resolved |-> TRUE, onExpresswayRoad |-> elements.motorway,
          nearIc |-> elements.icDistanceM # 0 /\ elements.icDistanceM <= nearIcRadiusM,
          nearEtcGate |-> elements.tollNode, nearestIc |-> elements.icDistanceM]
  ELSE [unresolvedSignal EXCEPT !.resolved = TRUE]

detectExpresswaySignal(onLine, responses, elements) ==
  IF ~onLine THEN unresolvedSignal
  ELSE IF queryExpresswayOverpass(responses)
    THEN [resolved |-> TRUE, onExpresswayRoad |-> elements.motorway,
          nearIc |-> elements.icDistanceM # 0 /\ elements.icDistanceM <= nearIcRadiusM,
          nearEtcGate |-> elements.tollNode, nearestIc |-> elements.icDistanceM]
  ELSE unresolvedSignal

allowEndBySignal(signal) ==
  ~signal.resolved \/ signal.nearIc \/ signal.nearEtcGate \/ ~signal.onExpresswayRoad
allowStartBySignal(signalCandidates) ==
  \E i \in 1..Len(signalCandidates) :
    LET signal == signalCandidates[i]
    IN ~signal.resolved \/ signal.onExpresswayRoad \/ signal.nearIc \/ signal.nearEtcGate

\* pickBestEntryIcCandidate: the distance of the chosen interchange, 0 when none
pickBestEntryIcCandidate(signalCandidates) ==
  LET mapped == {i \in 1..Len(signalCandidates) : signalCandidates[i].nearestIc # 0}
      near(i) == signalCandidates[i].nearIc \/ signalCandidates[i].nearEtcGate
      better(i, j) == \/ near(i) /\ ~near(j)
                      \/ near(i) = near(j)
                         /\ signalCandidates[i].nearestIc <= signalCandidates[j].nearestIc
  IN IF mapped = {} THEN 0
     ELSE signalCandidates[CHOOSE i \in mapped : \A j \in mapped : better(i, j)].nearestIc

\* the entry side of maybeHandleNativeAutoExpressway from the answers of the two
\* road-graph queries to its end: startExpressway, then updateExpresswayResolved,
\* which may throw
entryAfterSignal(s, signalCandidates, attachFails) ==
  LET cb == cbs[s]
      open == findOpenToggleSessionId(TripEvents(events, cb.tripId), "expressway_start",
                                      "expressway_end", "expresswaySessionId")
      bestEntryIc == pickBestEntryIcCandidate(signalCandidates)
      resolved == \E i \in 1..Len(signalCandidates) : signalCandidates[i].resolved
      report(allowed, ok, attach, eventId) ==
        [op |-> "expressway_start", ok |-> ok, resolved |-> resolved, allowed |-> allowed,
         attach |-> attach, eventId |-> eventId]
  IN
  /\ cb.pc = "entrySignal"
  /\ cbs' = [cbs EXCEPT ![s] = IdleCallback]
  /\ IF ~allowStartBySignal(signalCandidates)
     THEN /\ rt' = [rt EXCEPT !.speedAboveSince = cb.at]
          /\ last' = report(FALSE, TRUE, "none", 0)
          /\ UNCHANGED <<events, nextId, clock, pendingPrompt, pendingDecision, notified,
                         openCache, hist>>
     ELSE /\ pendingPrompt' = clearPendingExpresswayEndPrompt(pendingPrompt, cb.tripId)
          /\ pendingDecision' = clearPendingExpresswayEndDecision(pendingDecision, cb.tripId)
          /\ notified' = IF notified = cb.tripId THEN 0 ELSE notified
          /\ IF open # 0
             THEN /\ last' = report(TRUE, FALSE, "none", 0)
                  /\ rt' = [rt EXCEPT !.speedAboveSince = 0, !.inFlight = FALSE]
                  /\ openCache' = [tripId |-> cb.tripId, checkedAt |-> 0, isOpen |-> FALSE]
                  /\ UNCHANGED <<events, nextId, clock, hist>>
             ELSE \E id \in FreeIds :
                  LET e == expresswayEvent(id, cb.tripId, "expressway_start", clock,
                                           "expresswaySessionId", id)
                      thrown == bestEntryIc # 0 /\ attachFails
                  IN /\ events' = events \cup
                          {IF bestEntryIc # 0 /\ ~attachFails
                           THEN [e EXCEPT !.icResolveStatus = "resolved"] ELSE e}
                     /\ nextId' = nextId + 1
                     /\ clock' = clock + 1
                     /\ last' = report(TRUE, TRUE,
                                       IF bestEntryIc = 0 THEN "none"
                                       ELSE IF attachFails THEN "failed" ELSE "resolved", id)
                     /\ rt' = [rt EXCEPT !.speedAboveSince = 0, !.inFlight = FALSE,
                                         !.lastActionAt = IF thrown THEN @ ELSE cb.at]
                     /\ openCache' = IF thrown
                                      THEN [tripId |-> cb.tripId, checkedAt |-> 0, isOpen |-> FALSE]
                                      ELSE [tripId |-> cb.tripId, checkedAt |-> cb.at, isOpen |-> TRUE]
                     /\ hist' = [histAfterBreak(hist, FALSE) EXCEPT
                                   !.autoStarts = Append(@, autoStartAt(cb, hist.epoch)),
                                   !.lastAutoAt = cb.at]
  /\ UNCHANGED <<uuidAsc, metaActiveTripId, now, trackTrip, sup, home, tracker, routePoints>>

\* the answers the two queries (at the fix and at the last strong acceleration) can give
Signals ==
  {detectExpresswaySignal(onLine, q, e) : onLine \in BOOLEAN, q \in Queries, e \in Elements}
EntryAfterSignal ==
  \E s \in Slots, signalNow \in Signals, signalAccel \in Signals, attachFails \in BOOLEAN :
    entryAfterSignal(s, <<signalNow, signalAccel>>, attachFails)
\* the drive is followed for a few fixes: one automatic start and the time after it
MaxSignalNow == 130
SignalFix == now < MaxSignalNow /\ EntryFix
NextSignal == SignalFix \/ EntryAfterSignal \/ UserEndExpressway
SpecSignal == EntryInit /\ [][NextSignal]_vars

\* C29: when the road-graph query is unavailable (offline, or no endpoint answers)
\* detectExpresswaySignal returns an unresolved signal, which permits the exit and
\* the entry; the entry then writes the expressway_start with its interchange status
\* pending; and a failure of attaching the interchange leaves the written event.
C29_UnavailableQueryStillStarts ==
  /\ \A onLine \in BOOLEAN, q \in Queries, e \in Elements :
        (~onLine \/ \A i \in 1..Len(q) : q[i] # "ok")
        => LET signal == detectExpresswaySignal(onLine, q, e)
           IN /\ signal = unresolvedSignal
              /\ allowEndBySignal(signal)
              /\ allowStartBySignal(<<signal, signal>>)
  /\ (last.op = "expressway_start" /\ "resolved" \in DOMAIN last)
     => /\ ~last.resolved
           => /\ last.allowed /\ last.ok
              /\ \E e \in events : /\ e.id = last.eventId /\ e.type = "expressway_start"
                                    /\ e.icResolveStatus = "pending"
        /\ last.attach = "failed"
           => \E e \in events : /\ e.id = last.eventId /\ e.type = "expressway_start"
                                 /\ e.icResolveStatus = "pending"

\* the detector has written an expressway_start although no road-graph query answered
C29_UnresolvedStartWitness ==
  /\ last.op = "expressway_start" /\ "resolved" \in DOMAIN last
  /\ ~last.resolved /\ last.ok
  /\ \E e \in events : e.id = last.eventId /\ e.icResolveStatus = "pending"

\* ------------------------------------------------- the stored detector settings
\* A field of the parsed payload: missing, or a JSON value. Numbers are kept in
\* tenths so that Math.round is a step of the model.
JsonValue(kind, tenths) == [kind |-> kind, tenths |-> tenths]
FieldNumbers == {-10, 4, 296, 1000, 1605, 3004}
FieldValues ==
  {JsonValue("missing", 0), JsonValue("null", 0), JsonValue("true", 0),
   JsonValue("string", 0), JsonValue("numericString", 900), JsonValue("object", 0)}
    \cup {JsonValue("number", n) : n \in FieldNumbers}
ConfigFields == {"speedKmh", "durationSec", "endSpeedKmh", "endDurationSec"}
\* db.meta['autoExpresswayConfig']: no row, a text JSON.parse throws on, a JSON value
\* that is no object, or an object
StoredPayloads ==
  {[form |-> f] : f \in {"absent", "unparsable", "jsonNull", "jsonNumber"}}
    \cup {[form |-> "object", fields |-> fs] : fs \in [ConfigFields -> FieldValues]}

DEFAULT_AUTO_EXPRESSWAY_CONFIG ==
  [speedKmh |-> DefaultSpeedKmh, durationSec |-> DefaultDurationSec,
   endSpeedKmh |-> DefaultEndSpeedKmh, endDurationSec |-> DefaultEndDurationSec]
ConfigMin == [speedKmh |-> 30, durationSec |-> 1, endSpeedKmh |-> 10, endDurationSec |-> 5]
ConfigMax == [speedKmh |-> 160, durationSec |-> 60, endSpeedKmh |-> 120, endDurationSec |-> 300]

\* Number(x), in tenths: undefined, objects and other text are NaN; null, false
\* and "" are 0; true is 1; numeric text is its number
jsNumber(x) ==
  CASE x.kind = "number" -> Num(x.tenths)
    [] x.kind = "numericString" -> Num(x.tenths)
    [] x.kind = "null" -> Num(0)
    [] x.kind = "true" -> Num(10)
    [] OTHER -> NaN
\* Math.round of a number given in tenths
MathRound(tenths) == (tenths + 5) \div 10
Min(a, b) == IF a <= b THEN a ELSE b

normalizeAutoExpresswayConfig(fields) ==
  [f \in ConfigFields |->
     LET n == jsNumber(fields[f])
     IN IF ~n.nan THEN Min(Max(MathRound(n.v), ConfigMin[f]), ConfigMax[f])
        ELSE DEFAULT_AUTO_EXPRESSWAY_CONFIG[f]]

getAutoExpresswayConfig(payload) ==
  CASE payload.form \in {"absent", "unparsable"} -> DEFAULT_AUTO_EXPRESSWAY_CONFIG
    [] payload.form = "object" -> normalizeAutoExpresswayConfig(payload.fields)
    [] OTHER -> normalizeAutoExpresswayConfig([f \in ConfigFields |-> JsonValue("missing", 0)])

\* the settings are read once, whatever the stored payload is
GetAutoExpresswayConfig ==
  /\ last.op = "init"
  /\ \E payload \in StoredPayloads :
        last' = [op |-> "getAutoExpresswayConfig", ok |-> TRUE, payload |-> payload,
                 config |-> getAutoExpresswayConfig(payload)]
  /\ UNCHANGED <<events, nextId, uuidAsc, clock, metaActiveTripId, pendingPrompt,
                 pendingDecision, detVars>>
NextConfig == GetAutoExpresswayConfig
SpecConfig == Init /\ [][NextConfig]_vars

\* C30: getAutoExpresswayConfig returns, for an absent or unparsable payload, the
\* defaults 78 km/h, 6 s, 34 km/h, 24 s; within a parsable payload a missing or
\* non-number field takes its default and a number is rounded and clamped to
\* 30..160, 1..60, 10..120 and 5..300.
C30_DefaultsAndClamps ==
  last.op = "getAutoExpresswayConfig" =>
    LET payload == last.payload
        config == last.config
        field(f) == IF payload.form = "object" THEN payload.fields[f] ELSE JsonValue("missing", 0)
    IN /\ payload.form \in {"absent", "unparsable"}
            => config = [speedKmh |-> 78, durationSec |-> 6, endSpeedKmh |-> 34, endDurationSec |-> 24]
       /\ \A f \in ConfigFields :
            IF field(f).kind = "number"
              THEN /\ config[f] >= ConfigMin[f] /\ config[f] <= ConfigMax[f]
                   /\ \/ (10 * config[f] - field(f).tenths) \in -5..5
                      \/ (config[f] = ConfigMin[f] /\ field(f).tenths < 10 * ConfigMin[f])
                      \/ (config[f] = ConfigMax[f] /\ field(f).tenths > 10 * ConfigMax[f])
            ELSE config[f] = DEFAULT_AUTO_EXPRESSWAY_CONFIG[f]

\* ------------------------------------------- automatic entry: what held at the fix
LongGapSec == 54    \* a pause between two fixes longer than accelMaxDtSec
MaxAutoFixNow == 190 \* fixes of the entry study arrive up to this time
AutoGaps == {DefaultDurationSec, LongGapSec}
AutoFix ==
  \E dt \in AutoGaps, speed \in EntrySpeeds :
    AllIdle /\ now < MaxAutoFixNow /\ recordLocation(1, dt, speed)
NextAuto == AutoFix \/ EntrySignal \/ EntryWrite \/ UserEndExpressway \/ RestartRouteTracking
SpecAuto == EntryInit /\ [][NextAuto]_vars

\* C31: every automatic expressway_start was written for a fix at which no
\* expressway session was open, no fix below the entry threshold had arrived since
\* the accumulation timer started, no fix below 0.8 times the threshold had arrived
\* since the remembered strong acceleration, and at least 60 s had passed since the
\* last automatic action (the timer's length, the acceleration's age and the
\* road-graph answer are the guards under which entryEvaluation and entrySignal
\* hand the fix on).
C31_AutoStartOnlyWhenAllHold ==
  \A i \in 1..Len(hist.autoStarts) :
    LET a == hist.autoStarts[i]
    IN ~a.wasOpen /\ a.sustained /\ a.accelFresh /\ a.cooled

\* C32: every exit prompt was stored for a fix at which an expressway session was
\* open and no fix at or above the exit threshold had been received since the exit
\* timer started, fixes received during a cooldown or right after a 'keep' decision
\* included (the timer's length, the deceleration or stop-like speed, the prompt
\* cooldown and the road-graph answer are the guards under which exitEvaluation and
\* exitSignal hand the fix on).
C32_PromptOnlyWhenAllHold ==
  hist.nPrompts > 0 => hist.prompted.wasOpen /\ hist.prompted.quiet

\* ------------------------------------------------- recordLocation: the fix filter
\* Times are whole seconds and distances whole metres; speeds that recordLocation
\* fuses and smooths are kept in hundredths of a km/h.
NoAccuracy == -1
MODE_CONFIG(mode) ==
  IF mode = "battery"
  THEN [minTimeSec |-> 15, minDistanceM |-> 40, maxAccuracyM |-> 70,
        maxJumpDistanceM |-> 380, maxJumpSpeedKmh |-> 175]
  ELSE [minTimeSec |-> 6, minDistanceM |-> 12, maxAccuracyM |-> 35,
        maxJumpDistanceM |-> 220, maxJumpSpeedKmh |-> 155]

\* speedMsToKmh; sensor speeds are given in multiples of 1/3.6 m/s
speedMsToKmh(speedMs) == IF speedMs = NoSpeed \/ speedMs < 0 THEN NoSpeed ELSE speedMs

\* dist / (dt / 3600000) as line 637 computes it, dt being in milliseconds there
inferredSpeed(hadPoint, dist, dtSec) ==
  IF hadPoint /\ dtSec > 0 THEN (dist * 3600) \div dtSec ELSE NoSpeed

Abs(x) == IF x < 0 THEN 0 - x ELSE x

\* fuseSpeedKmh, in hundredths of a km/h
fuseSpeedKmh(sensorSpeedKmh, inferredSpeedKmh, accuracyM) ==
  LET w0 == IF accuracyM = NoAccuracy THEN 62
            ELSE IF accuracyM <= 12 THEN 76
            ELSE IF accuracyM >= 40 THEN 40 ELSE 62
      sensorWeight == IF Abs(sensorSpeedKmh - inferredSpeedKmh) >= 24 THEN Min(w0, 35) ELSE w0
  IN IF sensorSpeedKmh = NoSpeed /\ inferredSpeedKmh = NoSpeed THEN NoSpeed
     ELSE IF sensorSpeedKmh = NoSpeed THEN 100 * inferredSpeedKmh
     ELSE IF inferredSpeedKmh = NoSpeed THEN 100 * sensorSpeedKmh
     ELSE sensorSpeedKmh * sensorWeight + inferredSpeedKmh * (100 - sensorWeight)

\* smoothSpeedKmh, in hundredths of a km/h (the product is cut to a hundredth)
smoothSpeedKmh(prev, nextSpeedKmh, accuracyM) ==
  LET alpha == IF accuracyM = NoAccuracy THEN 34
               ELSE IF accuracyM <= 10 THEN 46
               ELSE IF accuracyM >= 35 THEN 22 ELSE 34
  IN IF nextSpeedKmh = NoSpeed THEN NoSpeed
     ELSE IF prev = NoSpeed THEN nextSpeedKmh
     ELSE prev + (alpha * (nextSpeedKmh - prev)) \div 100

\* the whole km/h of a speed kept in hundredths
wholeKmh(c) == IF c = NoSpeed THEN NoSpeed ELSE c \div 100

\* a filter that tests the accuracy only
rejectsOnAccuracyOnly(config, hadPoint, accuracy, dt, dist, speedKmh) ==
  accuracy # NoAccuracy /\ accuracy > config.maxAccuracyM

\* the three returns of recordLocation before anything is written
rejectsFix(config, hadPoint, accuracy, dt, dist, speedKmh) ==
  \/ accuracy # NoAccuracy /\ accuracy > config.maxAccuracyM
  \/ /\ hadPoint
     /\ \/ speedKmh # NoSpeed /\ dist >= config.maxJumpDistanceM
            /\ speedKmh > 100 * config.maxJumpSpeedKmh
        \/ dt < config.minTimeSec /\ dist < config.minDistanceM

\* recordLocation for a fix as the watcher delivers it, run to the first road-graph
\* query of maybeHandleNativeAutoExpressway
recordLocationChecked(accuracy, gap, dist, speedMs) ==
  LET t == now + gap
      config == MODE_CONFIG(tracker.currentMode)
      dt == t - tracker.lastPointAt
      sensorSpeedKmh == speedMsToKmh(speedMs)
      inferredSpeedKmh == inferredSpeed(tracker.lastPoint, dist, dt)
      speedKmh == fuseSpeedKmh(sensorSpeedKmh, inferredSpeedKmh, accuracy)
      rejected == rejectsFix(config, tracker.lastPoint, accuracy, dt, dist, speedKmh)
      fusedSpeedKmh == smoothSpeedKmh(rt.smoothedSpeedKmh, speedKmh, accuracy)
  IN
  /\ trackTrip # 0
  /\ AllIdle
  /\ now' = t
  /\ last' = [op |-> "recordLocation", ok |-> TRUE, accepted |-> ~rejected,
              mode |-> tracker.currentMode, hadPoint |-> tracker.lastPoint,
              accuracy |-> accuracy, dt |-> dt, dist |-> dist, speedKmh |-> speedKmh]
  /\ IF rejected
     THEN UNCHANGED <<tracker, routePoints, rt, openCache, pendingPrompt, pendingDecision,
                      notified, cbs, hist>>
     ELSE /\ tracker' = [tracker EXCEPT !.lastPoint = TRUE, !.lastPointAt = t]
          /\ routePoints' = routePoints \cup {[tripId |-> trackTrip, ts |-> t]}
          /\ \E o \in {maybeHandleNativeAutoExpressway(trackTrip, wholeKmh(fusedSpeedKmh), t)} :
               /\ rt' = [o.rt EXCEPT !.smoothedSpeedKmh = fusedSpeedKmh]
               /\ openCache' = o.cache
               /\ pendingPrompt' = o.prompt
               /\ pendingDecision' = o.decision
               /\ notified' = o.shown
               /\ cbs' = [cbs EXCEPT ![1] = callbackAt(o, wholeKmh(fusedSpeedKmh), t)]
               /\ hist' = fixMarks(histAfterFix(hist, wholeKmh(fusedSpeedKmh), t), rt, o.rt,
                                   wholeKmh(fusedSpeedKmh), t)
  /\ UNCHANGED <<events, nextId, uuidAsc, clock, metaActiveTripId, trackTrip, sup, home>>

\* startRouteTracking with the other mode while tracking runs: stop, then start
switchRouteTrackingMode(mode) ==
  /\ trackTrip # 0
  /\ AllIdle
  /\ mode # tracker.currentMode
  /\ hist.epoch < MaxRestarts
  /\ tracker' = [tracker EXCEPT !.currentMode = mode, !.lastPoint = FALSE, !.lastPointAt = 0]
  /\ rt' = expresswayRuntime0
  /\ openCache' = [tripId |-> trackTrip, checkedAt |-> 0, isOpen |-> FALSE]
  /\ hist' = [histAfterBreak(hist, hist.keepPending) EXCEPT !.epoch = @ + 1]
  /\ UNCHANGED <<ledgerVars, now, trackTrip, cbs, notified, sup, home, routePoints>>

MaxFilterNow == 112  \* fixes of the filter study arrive up to this time
FixAccuracies == {NoAccuracy, 10, 50}
FixGaps == {3, 6}
FixDistances == {5, 20, 300}
FixSpeeds == {NoSpeed, 80}
RecordLocation ==
  \E accuracy \in FixAccuracies, gap \in FixGaps, dist \in FixDistances, speedMs \in FixSpeeds :
    now + gap <= MaxFilterNow /\ recordLocationChecked(accuracy, gap, dist, speedMs)
SwitchRouteTrackingMode == \E mode \in Modes : switchRouteTrackingMode(mode)
NextFilter == RecordLocation \/ SwitchRouteTrackingMode \/ EntrySignal \/ EntryWrite
SpecFilter == EntryInit /\ [][NextFilter]_vars

\* the rejection conditions as the filter is described, read from the call's record
DescribedAsRejected(call) ==
  LET config == MODE_CONFIG(call.mode)
  IN \/ call.accuracy # NoAccuracy /\ call.accuracy > config.maxAccuracyM
     \/ call.hadPoint /\ call.dt < config.minTimeSec /\ call.dist < config.minDistanceM
     \/ call.hadPoint /\ call.dist >= config.maxJumpDistanceM
        /\ call.speedKmh # NoSpeed /\ call.speedKmh > 100 * config.maxJumpSpeedKmh

\* C33: a fix that recordLocation rejects (accuracy above the mode's ceiling; time
\* and displacement since the last accepted fix both below the mode's minimums;
\* displacement at least the jump distance with fused speed above the jump cap)
\* changes nothing: the last accepted point, the smoothed speed, every detector
\* timer and mark, the open-session cache and the stored route points are the same
\* before and after the call.
C33_RejectedFixChangesNothing ==
  [][(now' # now /\ last'.op = "recordLocation" /\ DescribedAsRejected(last'))
       => UNCHANGED <<tracker, rt, openCache, routePoints, cbs, pendingPrompt, pendingDecision>>]_vars

\* a fix has been rejected after an earlier fix was accepted and stored
C33_RejectedWitness ==
  /\ last.op = "recordLocation" /\ ~last.accepted /\ last.hadPoint
  /\ DescribedAsRejected(last)
  /\ rt.smoothedSpeedKmh # NoSpeed /\ routePoints # {}

\* ------------------------------------------------- the stored 'end' decision
\* applyPendingExpresswayEndDecision when endExpressway throws because the store
\* rejects the write: the catch block leaves everything as it is
homeEndWriteFails ==
  /\ home.pc = "endWrite"
  /\ home.sawOpen # 0
  /\ home' = IdlePass
  /\ last' = Call("expressway_end", FALSE)
  /\ hist' = [hist EXCEPT !.pass = passRecord("home", home, pendingPrompt, pendingDecision, FALSE)]
  /\ UNCHANGED <<events, nextId, uuidAsc, clock, metaActiveTripId, pendingPrompt, pendingDecision,
                 now, trackTrip, rt, openCache, cbs, notified, sup, tracker, routePoints>>

HomeEndWriteFails == homeEndWriteFails
NextDecision == NextReconcile \/ HomeEndWriteFails
SpecDecision == ExitInit /\ [][NextDecision]_vars

\* C34 (its second half): a stored 'end' decision for a trip whose expressway
\* session is open is cleared only by a step after which an expressway_end carrying
\* the session's id is in the table.
C34_EndDecisionKeptUntilWritten ==
  [][\A s \in OpenExpresswayStarts(events, pendingDecision.tripId) :
       (pendingDecision.action = "end" /\ pendingDecision' # pendingDecision)
         => \E e \in events' : e.type = "expressway_end" /\ e.tripId = s.tripId /\
                                Extra(e, "expresswaySessionId") = s.sid]_vars

\* ------------------------------------------- the supervisor's pass and the ledger
\* the driver's ledger actions, taken while no pass is in progress
BetweenPasses == sup.pc = "idle" /\ home.pc = "idle"
DriverStartTrip == BetweenPasses /\ StartTrip
DriverEndTrip == BetweenPasses /\ EndTrip
DriverStartRest == BetweenPasses /\ StartRest
DriverEndRest == BetweenPasses /\ EndRest
MaxSyncNow == 172
SyncFix == now < MaxSyncNow /\ ExitFix
NextSync ==
  SyncFix \/ ExitSignal \/ NotificationEnd \/ NotificationKeep
          \/ SupervisorRead \/ SupervisorApply \/ SupervisorEndWrite
          \/ DriverStartTrip \/ DriverEndTrip \/ DriverStartRest \/ DriverEndRest
SpecSync == ExitInit /\ [][NextSync]_vars

\* a step that completes a sync pass without error
SyncCompletes ==
  \/ supervisorRead /\ sup'.pc = "idle"
  \/ supervisorApply /\ sup'.pc = "idle"
  \/ supervisorEndWrite /\ sup.sawOpen # 0

\* C35: when a sync pass has completed without error, route tracking is running
\* if and only if an active trip exists and the active trip has no open rest
\* session; and when no trip is active, no exit prompt and no decision is stored.
C35_PassSetsTracking ==
  [][SyncCompletes =>
       /\ (trackTrip' # 0) <=>
            (ActiveTrips' # {} /\
             ~hasOpenSession(TripEvents(events', metaActiveTripId'), "rest_start", "rest_end",
                             "restSessionId"))
       /\ trackTrip' # 0 => trackTrip' = metaActiveTripId'
       /\ ActiveTrips' = {} => pendingPrompt' = 0 /\ pendingDecision' = NoDecision]_vars

\* a pass has completed for a resting trip and has stopped route tracking
C35_StoppedForRestWitness ==
  /\ hist.pass.by = "sync" /\ sup.pc = "idle"
  /\ metaActiveTripId \in ActiveTrips
  /\ hasOpenSession(TripEvents(events, metaActiveTripId), "rest_start", "rest_end", "restSessionId")
  /\ trackTrip = 0

\* ------------------------------------------------- the stored totals under edits
\* the ended trip under the edits of the history screen
MoveRestStart ==
  /\ \E ev \in OfType(events, "rest_start"), ts \in Times : updateEventTimestamp(ev, ts)
  /\ UNCHANGED <<clock, detVars>>
NextTotals == EditRestStartOdo \/ MoveRestStart \/ RetypeRestStart \/ DeleteEvent
\* the ledger once startTrip, startRest, endRest and endTrip have returned
RestedTripInit ==
  /\ \E oS \in Odos, o1 \in Odos, oE \in Odos :
       /\ oS <= o1 /\ o1 <= oE
       /\ events = {Ev(1, 1, "trip_start", 1, oS, "", 0, "absent", 0, FALSE, 0, 0),
                    Ev(2, 1, "rest_start", 1, o1, "restSessionId", 2, "absent", 0, FALSE, 0, 0),
                    Ev(3, 1, "rest_end", 2, 0, "restSessionId", 2, "false", 0, FALSE, 0, 0),
                    Ev(4, 1, "trip_end", 2, oE, "", 0, "absent", 0, TRUE, oE - oS, oE - o1)}
  /\ nextId = 5
  /\ uuidAsc \in BOOLEAN
  /\ clock = 2
  /\ metaActiveTripId = 0
  /\ pendingPrompt = 0
  /\ pendingDecision = NoDecision
  /\ last = Call("endTrip", TRUE)
  /\ now = StartTime /\ trackTrip = 0 /\ rt = expresswayRuntime0
  /\ openCache = [tripId |-> 0, checkedAt |-> 0, isOpen |-> FALSE]
  /\ cbs = [s \in Slots |-> IdleCallback]
  /\ notified = 0 /\ sup = IdlePass /\ home = IdlePass /\ hist = hist0
  /\ tracker = tracker0
  /\ routePoints = {}
SpecTotals == RestedTripInit /\ [][NextTotals]_vars

\* C36: for every ended trip, after any updateEventOdo, updateEventType,
\* updateEventTimestamp and deleteEvent, the totalKm stored on the trip_end is its
\* odometer minus the trip_start's, and the stored lastLegKm is its odometer minus
\* that of the latest remaining rest_start, or totalKm when no rest_start remains.
C36_StoredTotalsCurrent ==
  \A t \in ExistingTrips :
    \A e \in OfType(TripEvents(events, t), "trip_end") :
      \A s \in OfType(TripEvents(events, t), "trip_start") :
        /\ e.hasTotals
        /\ e.totalKm = e.odoKm - s.odoKm
        /\ LastLegFrom(t, e.odoKm, e.totalKm, e.lastLegKm)

\* C37: every trip has at most one trip_end event, whatever endTrip calls were made.
C37_AtMostOneTripEnd ==
  \A t \in ExistingTrips : Cardinality(OfType(TripEvents(events, t), "trip_end")) <= 1

\* ------------------------------------------------- the settings as they are saved
\* what the settings sheet's four text fields hold, read with Number(), in tenths
DraftNumbers == {296, 300, 340, 780, 1000, 1605}
Drafts == [ConfigFields -> DraftNumbers]

\* setAutoExpresswayConfig: the normalized config is stored and returned
setAutoExpresswayConfig(config) ==
  LET normalized == normalizeAutoExpresswayConfig([f \in ConfigFields |-> JsonValue("number", 10 * config[f])])
  IN last' = [op |-> "setAutoExpresswayConfig", ok |-> TRUE, payload |-> config, config |-> normalized]

\* saveAutoExpresswaySettings: each field is checked against its own range, then saved rounded
saveAutoExpresswaySettings(draft) ==
  IF \E f \in ConfigFields : draft[f] < 10 * ConfigMin[f] \/ draft[f] > 10 * ConfigMax[f]
  THEN last' = Call("saveAutoExpresswaySettings", FALSE)
  ELSE setAutoExpresswayConfig([f \in ConfigFields |-> MathRound(draft[f])])

SaveAutoExpresswaySettings ==
  /\ \E draft \in Drafts : saveAutoExpresswaySettings(draft)
  /\ UNCHANGED <<events, nextId, uuidAsc, clock, metaActiveTripId, pendingPrompt,
                 pendingDecision, detVars>>
\* the settings are read back after they were saved
GetSavedConfig ==
  /\ last.op = "setAutoExpresswayConfig"
  /\ \E payload \in {[form |-> "object",
                        fields |-> [f \in ConfigFields |-> JsonValue("number", 10 * last.config[f])]]} :
        last' = [op |-> "getAutoExpresswayConfig", ok |-> TRUE, payload |-> payload,
                 config |-> getAutoExpresswayConfig(payload)]
  /\ UNCHANGED <<events, nextId, uuidAsc, clock, metaActiveTripId, pendingPrompt,
                 pendingDecision, detVars>>
NextSettings == SaveAutoExpresswaySettings \/ GetSavedConfig
SpecSettings == Init /\ [][NextSettings]_vars

\* C38: every config stored by setAutoExpresswayConfig or returned by
\* getAutoExpresswayConfig has its exit speed threshold strictly below its entry
\* speed threshold.
C38_EndSpeedBelowSpeed ==
  last.op \in {"setAutoExpresswayConfig", "getAutoExpresswayConfig"}
    => last.config.endSpeedKmh < last.config.speedKmh

\* ------------------------------------------- callbacks in progress at the stop
\* stopRouteTracking as the detector sees it: no trip is tracked, the runtime is reset
stopRouteTrackingForTrip ==
  /\ trackTrip # 0
  /\ trackTrip' = 0
  /\ rt' = expresswayRuntime0
  /\ openCache' = [tripId |-> 0, checkedAt |-> 0, isOpen |-> FALSE]
  /\ UNCHANGED <<ledgerVars, now, cbs, notified, sup, home, hist, tracker, routePoints>>
StopRouteTrackingForTrip == stopRouteTrackingForTrip
NextStop == OverlappingFix \/ ExitSignal \/ EntrySignal \/ EntryWrite \/ StopRouteTrackingForTrip
SpecStop == OverlapInit /\ [][NextStop]_vars

\* C39: once stopRouteTracking has been called, no callback that was in progress
\* at the call writes an automatic expressway_start or stores an exit prompt.
C39_NoWriteAfterStop ==
  [][trackTrip = 0 =>
       /\ OfType(events', "expressway_start") \subseteq OfType(events, "expressway_start")
       /\ pendingPrompt' \in {pendingPrompt, 0}]_vars

\* ------------------------------------------------- what deleteTrip leaves behind
\* the tracked drive on the expressway, its route points, prompt and decision, and
\* the trip's deletion from the history screen
NextDelete ==
  RecordLocation \/ SyncFix \/ ExitSignal \/ NotificationEnd \/ NotificationKeep \/ DeleteTrip
SpecDelete == ExitInit /\ [][NextDelete]_vars

\* C40: when deleteTrip(t) has completed, no event, no route point, no pending
\* prompt and no pending decision has tripId t, the active-trip pointer does not
\* name t, and the events of every other trip are unchanged.
C40_DeleteTripLeavesNothing ==
  [][\A t \in ExistingTrips :
       deleteTrip(t) =>
         /\ TripEvents(events', t) = {}
         /\ \A r \in routePoints' : r.tripId # t
         /\ pendingPrompt' # t
         /\ pendingDecision'.tripId # t
         /\ metaActiveTripId' # t
         /\ \A u \in ExistingTrips \ {t} : TripEvents(events', u) = TripEvents(events, u)]_vars
====
